----------------------- MODULE RelationIncludeProofs -----------------------
(***************************************************************************)
(* RelationInclude for every set of requests, resources, relations, pools  *)
(* and keys, and every bound.                                              *)
(*                                                                         *)
(* Slots.  That no pool gives out more slots than it has is not inductive: *)
(* a grant is counted for the pool whose queue it comes from only if the   *)
(* first in a queue waits for that pool's slot and for no other.  IInv     *)
(* adds that a queue holds exactly the requests that wait for its pool,    *)
(* each once, and that a request that loads a relation has one left.       *)
(*                                                                         *)
(* Progress.  With everybody waiting, every pool somebody waits for is     *)
(* full; its slots are held by requests that wait for a further pool.      *)
(* Where the relations lead around no cycle of pools, one of the pools     *)
(* waited for leads to no other of them, which is absurd.                  *)
(*                                                                         *)
(* Bounds.  The one query of all sources has a limit beyond what they may  *)
(* have together: below the limit it returned all there is, and at the     *)
(* limit some source has more than its bound.                              *)
(***************************************************************************)
EXTENDS RelationInclude, FiniteSetTheorems, TLAPS

\* In this module, so that the provers see them as one fact each.
Waiting(r) == phase[r] \in {"waitSource", "waitTarget"}
WaitPool(r) == IF phase[r] = "waitSource" THEN SourcePool(r) ELSE TargetPool(r)

SourceHolders(p) == {r \in Requests : HoldsSource(r) /\ SourcePool(r) = p}
TargetHolders(p) == {r \in Requests : HoldsTarget(r) /\ TargetPool(r) = p}

Types ==
    /\ request \in [Requests -> Request]
    /\ phase \in [Requests -> Phases]
    /\ outcome \in [Requests -> Outcomes]
    /\ queue \in [Pools -> Seq(Requests)]
    /\ rows \in [Resources -> [Keys -> 0 .. MaxRows]]
    /\ writes \in 0 .. MaxWrites

\* What r has read so far.
Loaded(r) ==
    /\ sources[r] \in Seq(Keys \cup {Null})
    /\ Len(sources[r]) <= PageSize
    /\ maps[r] \in Seq([DOMAIN sources[r] -> 0 .. MaxRows])
    /\ phase[r] \in {"idle", "waitSource", "reading"} => maps[r] = <<>>
    /\ Len(maps[r]) <= Len(request[r].include)
    /\ phase[r] \in {"loading", "waitTarget", "readTarget"} =>
        Len(maps[r]) < Len(request[r].include) /\ sources[r] # <<>>

Reads ==
    /\ sources \in [Requests -> Seq(Keys \cup {Null})]
    /\ DOMAIN maps = Requests
    /\ \A r \in Requests : Loaded(r)

\* A queue holds exactly those who wait for its pool, each once.
Queues ==
    \A p \in Pools :
        /\ IsInjective(queue[p])
        /\ \A r \in Requests :
            r \in Range(queue[p]) <=> Waiting(r) /\ WaitPool(r) = p

Slots ==
    \A p \in Pools :
        /\ IsFiniteSet(SourceHolders(p)) /\ IsFiniteSet(TargetHolders(p))
        /\ Used(p) <= Capacity[p]

IInv == Types /\ Reads /\ Queues /\ Slots

-----------------------------------------------------------------------------
(* A request's relations are relations of its source, at most two.         *)
LEMMA RequestShape ==
    ASSUME NEW q \in Request
    PROVE  /\ q.kind \in Kinds /\ q.source \in Resources
           /\ q.include \in Seq(Relations)
           /\ \A i \in 1 .. Len(q.include) : q.include[i].from = q.source
<1>1. q.kind \in Kinds /\ q.source \in Resources /\ q.include \in IncludesOf(q.source)
  BY DEF Request
<1>2. CASE q.include = <<>>
  BY <1>1, <1>2
<1>3. CASE \E a \in {x \in Relations : x.from = q.source} : q.include = <<a>>
  BY <1>1, <1>3
<1>4. CASE \E a, b \in {x \in Relations : x.from = q.source} : q.include = <<a, b>>
  BY <1>1, <1>4
<1>5. QED
  BY <1>1, <1>2, <1>3, <1>4 DEF IncludesOf

(* The pool of the source, and of the target of a relation still to load,  *)
(* are pools; the relation leads from the one to the other.                *)
LEMMA PoolsTyped ==
    ASSUME Types, NEW r \in Requests
    PROVE  /\ request[r] \in Request
           /\ SourcePool(r) \in Pools
           /\ (maps[r] \in Seq([DOMAIN sources[r] -> 0 .. MaxRows])
                    /\ Len(maps[r]) < Len(request[r].include)) =>
                /\ Current(r) \in Relations
                /\ Current(r).from = request[r].source
                /\ Current(r).to \in Resources
                /\ Current(r).many \in BOOLEAN
                /\ TargetPool(r) \in Pools
<1>1. request[r] \in Request
  BY DEF Types
<1>2. SourcePool(r) \in Pools
  BY <1>1, RequestShape, PoolAssumption DEF SourcePool
<1>3. ASSUME maps[r] \in Seq([DOMAIN sources[r] -> 0 .. MaxRows]),
             Len(maps[r]) < Len(request[r].include)
      PROVE  /\ Current(r) \in Relations
             /\ Current(r).from = request[r].source
  <2>1. Len(maps[r]) + 1 \in 1 .. Len(request[r].include)
    BY <1>1, <1>3, RequestShape
  <2>2. QED
    BY <1>1, <2>1, RequestShape DEF Current
<1>4. ASSUME Current(r) \in Relations
      PROVE  Current(r).to \in Resources /\ Current(r).many \in BOOLEAN
                /\ TargetPool(r) \in Pools
  BY <1>4, RelationAssumption, PoolAssumption DEF TargetPool
<1>5. QED
  BY <1>1, <1>2, <1>3, <1>4

(* The slots in use, by who holds them.                                    *)
LEMMA UsedByHolders ==
    ASSUME NEW p
    PROVE  Used(p) = Cardinality(SourceHolders(p)) + Cardinality(TargetHolders(p))
BY DEF Used, SourceHolders, TargetHolders

(* Initially nobody waits or holds a slot.                                 *)
LEMMA InitIInv == Init => IInv
<1> SUFFICES ASSUME Init PROVE IInv
  OBVIOUS
<1> USE DEF Init
<1>1. Types
  BY BoundAssumption DEF Types, Phases, Outcomes
<1>2. Reads
  <2> SUFFICES ASSUME NEW r \in Requests PROVE Loaded(r)
    BY DEF Reads
  <2>1. request[r].include \in Seq(Relations)
    BY RequestShape
  <2>2. QED
    BY <2>1, BoundAssumption DEF Loaded
<1>3. Queues
  BY DEF Queues, Waiting, Range, IsInjective
<1>4. Slots
  <2> SUFFICES ASSUME NEW p \in Pools
               PROVE  /\ IsFiniteSet(SourceHolders(p)) /\ IsFiniteSet(TargetHolders(p))
                      /\ Used(p) <= Capacity[p]
    BY DEF Slots
  <2>1. SourceHolders(p) = {} /\ TargetHolders(p) = {}
    BY DEF SourceHolders, TargetHolders, HoldsSource, HoldsTarget
  <2>2. Cardinality(SourceHolders(p)) = 0 /\ Cardinality(TargetHolders(p)) = 0
    BY <2>1, FS_EmptySet
  <2>3. Used(p) = 0
    BY <2>2, UsedByHolders
  <2>4. QED
    BY <2>1, <2>3, FS_EmptySet, PoolAssumption
<1>5. QED
  BY <1>1, <1>2, <1>3, <1>4 DEF IInv

-----------------------------------------------------------------------------
\* What a step that moves r alone leaves of the others.
OnlyMoves(r) ==
    /\ request' = request
    /\ \A q \in Requests \ {r} :
        phase'[q] = phase[q] /\ maps'[q] = maps[q] /\ sources'[q] = sources[q]

(* Who is left alone waits for the same pool as before, and holds the same *)
(* slots.                                                                  *)
LEMMA OthersAreLeft ==
    ASSUME NEW r, OnlyMoves(r), NEW q \in Requests \ {r}
    PROVE  /\ SourcePool(q)' = SourcePool(q) /\ TargetPool(q)' = TargetPool(q)
           /\ HoldsSource(q)' = HoldsSource(q) /\ HoldsTarget(q)' = HoldsTarget(q)
           /\ Waiting(q)' = Waiting(q) /\ WaitPool(q)' = WaitPool(q)
           /\ Loaded(q)' = Loaded(q)
<1>1. phase'[q] = phase[q] /\ maps'[q] = maps[q] /\ request' = request
        /\ sources'[q] = sources[q]
  BY DEF OnlyMoves
<1>2. SourcePool(q)' = SourcePool(q) /\ TargetPool(q)' = TargetPool(q)
  BY <1>1 DEF SourcePool, TargetPool, Current
<1>3. QED
  BY <1>1, <1>2 DEF HoldsSource, HoldsTarget, Waiting, WaitPool, Loaded

(* A step that gives nobody a slot keeps every pool within its capacity.   *)
LEMMA NoNewHolder ==
    ASSUME Slots, NEW r \in Requests, OnlyMoves(r),
           HoldsSource(r)' => HoldsSource(r),
           HoldsTarget(r)' => HoldsTarget(r) /\ maps'[r] = maps[r]
    PROVE  Slots'
<1> SUFFICES ASSUME NEW p \in Pools
             PROVE  /\ IsFiniteSet(SourceHolders(p)') /\ IsFiniteSet(TargetHolders(p)')
                    /\ Used(p)' <= Capacity[p]
  BY DEF Slots
<1>1. SourcePool(r)' = SourcePool(r)
  BY DEF OnlyMoves, SourcePool
<1>2. HoldsTarget(r)' => TargetPool(r)' = TargetPool(r)
  BY DEF OnlyMoves, TargetPool, Current
<1>3. SourceHolders(p)' \subseteq SourceHolders(p)
  BY <1>1, OthersAreLeft DEF SourceHolders
<1>4. TargetHolders(p)' \subseteq TargetHolders(p)
  BY <1>2, OthersAreLeft DEF TargetHolders
<1>5. /\ IsFiniteSet(SourceHolders(p)) /\ IsFiniteSet(TargetHolders(p))
      /\ Used(p) <= Capacity[p] /\ Capacity[p] \in Nat
  BY PoolAssumption DEF Slots
<1>6. /\ IsFiniteSet(SourceHolders(p)')
      /\ Cardinality(SourceHolders(p)') <= Cardinality(SourceHolders(p))
  BY <1>3, <1>5, FS_Subset
<1>7. /\ IsFiniteSet(TargetHolders(p)')
      /\ Cardinality(TargetHolders(p)') <= Cardinality(TargetHolders(p))
  BY <1>4, <1>5, FS_Subset
<1>8. Used(p)' = Cardinality(SourceHolders(p)') + Cardinality(TargetHolders(p)')
  BY DEF Used, SourceHolders, TargetHolders
<1>9. QED
  BY <1>5, <1>6, <1>7, <1>8, UsedByHolders, FS_CardinalityType

(* A step of one who neither waits nor comes to wait keeps the queues.     *)
LEMMA NoWaiterMoves ==
    ASSUME Queues, NEW r \in Requests, OnlyMoves(r), queue' = queue,
           ~ Waiting(r), ~ Waiting(r)'
    PROVE  Queues'
<1> SUFFICES ASSUME NEW p \in Pools, NEW q \in Requests
             PROVE  /\ IsInjective(queue[p])'
                    /\ (q \in Range(queue[p]) <=> Waiting(q) /\ WaitPool(q) = p)'
  BY DEF Queues
<1>1. CASE q = r
  BY <1>1 DEF Queues, Range, IsInjective
<1>2. CASE q # r
  BY <1>2, OthersAreLeft DEF Queues, Range, IsInjective
<1>3. QED
  BY <1>1, <1>2

(* One more in a queue.                                                    *)
LEMMA AppendToQueue ==
    ASSUME NEW S, NEW q \in Seq(S), NEW x \in S, IsInjective(q), x \notin Range(q)
    PROVE  IsInjective(Append(q, x)) /\ Range(Append(q, x)) = Range(q) \cup {x}
BY DEF IsInjective, Range

(* One fewer in a queue.                                                   *)
LEMMA TailOfQueue ==
    ASSUME NEW S, NEW q \in Seq(S), q # <<>>, IsInjective(q)
    PROVE  /\ Head(q) \in S /\ Head(q) \in Range(q) /\ Tail(q) \in Seq(S)
           /\ IsInjective(Tail(q)) /\ Range(Tail(q)) = Range(q) \ {Head(q)}
<1>1. /\ Len(q) \in Nat \ {0} /\ DOMAIN q = 1 .. Len(q) /\ Head(q) = q[1]
      /\ Tail(q) \in Seq(S) /\ DOMAIN Tail(q) = 1 .. Len(q) - 1
      /\ \A i \in 1 .. Len(q) - 1 : Tail(q)[i] = q[i + 1]
  OBVIOUS
<1>2. IsInjective(Tail(q))
  BY <1>1 DEF IsInjective
<1>3. Range(Tail(q)) \subseteq Range(q) \ {Head(q)}
  BY <1>1 DEF IsInjective, Range
<1>4. ASSUME NEW i \in DOMAIN q, q[i] # Head(q)
      PROVE  q[i] \in Range(Tail(q))
  <2>1. i - 1 \in DOMAIN Tail(q) /\ Tail(q)[i - 1] = q[i]
    BY <1>1, <1>4
  <2>2. QED
    BY <2>1 DEF Range
<1>5. QED
  BY <1>1, <1>2, <1>3, <1>4 DEF Range

(* Who begins to wait is the last in its queue, and in no other.           *)
LEMMA OneMoreWaits ==
    ASSUME Queues, NEW r \in Requests, NEW p \in Pools, OnlyMoves(r),
           WaitFor(r, p), ~ Waiting(r), Waiting(r)', WaitPool(r)' = p,
           queue \in [Pools -> Seq(Requests)]
    PROVE  Queues'
<1> SUFFICES ASSUME NEW o \in Pools, NEW q \in Requests
             PROVE  /\ IsInjective(queue'[o])
                    /\ q \in Range(queue'[o]) <=> Waiting(q)' /\ WaitPool(q)' = o
  BY DEF Queues, Range, IsInjective
<1>1. queue'[o] = IF o = p THEN Append(queue[p], r) ELSE queue[o]
  BY DEF WaitFor
<1>2. r \notin Range(queue[o]) /\ r \notin Range(queue[p])
  BY DEF Queues
<1>3. IsInjective(queue[o]) /\ IsInjective(queue[p])
  BY DEF Queues
<1>4. /\ IsInjective(queue'[o])
      /\ Range(queue'[o]) = IF o = p THEN Range(queue[o]) \cup {r} ELSE Range(queue[o])
  <2>1. /\ IsInjective(Append(queue[p], r))
        /\ Range(Append(queue[p], r)) = Range(queue[p]) \cup {r}
    BY <1>2, <1>3, AppendToQueue
  <2>2. CASE o = p
    BY <1>1, <2>1, <2>2
  <2>3. CASE o # p
    BY <1>1, <1>3, <2>3
  <2>4. QED
    BY <2>2, <2>3
<1>5. CASE q = r
  BY <1>2, <1>4, <1>5
<1>6. CASE q # r
  BY <1>4, <1>6, OthersAreLeft DEF Queues
<1>7. QED
  BY <1>5, <1>6

(* Who is granted a slot was first in its queue, and leaves it.            *)
LEMMA OneFewerWaits ==
    ASSUME Queues, NEW r \in Requests, NEW p \in Pools, OnlyMoves(r),
           queue[p] # <<>>, r = Head(queue[p]), ~ Waiting(r)',
           queue' = [queue EXCEPT ![p] = Tail(@)],
           queue \in [Pools -> Seq(Requests)]
    PROVE  Queues'
<1> SUFFICES ASSUME NEW o \in Pools, NEW q \in Requests
             PROVE  /\ IsInjective(queue'[o])
                    /\ q \in Range(queue'[o]) <=> Waiting(q)' /\ WaitPool(q)' = o
  BY DEF Queues, Range, IsInjective
<1>1. queue'[o] = IF o = p THEN Tail(queue[p]) ELSE queue[o]
  OBVIOUS
<1>2. IsInjective(queue[o]) /\ IsInjective(queue[p])
  BY DEF Queues
<1>3. r \in Range(queue[p]) /\ Range(Tail(queue[p])) = Range(queue[p]) \ {r}
        /\ IsInjective(Tail(queue[p]))
  BY <1>2, TailOfQueue
<1>4. o # p => r \notin Range(queue[o])
  BY <1>3 DEF Queues
<1>5. CASE q = r
  BY <1>1, <1>2, <1>3, <1>4, <1>5
<1>6. CASE q # r
  BY <1>1, <1>2, <1>3, <1>6, OthersAreLeft DEF Queues
<1>7. QED
  BY <1>5, <1>6

-----------------------------------------------------------------------------
(* Advance moves r alone.                                                  *)
LEMMA AdvanceMoves ==
    ASSUME Types, Reads, NEW r \in Requests, NEW p \in Phases, NEW o \in Outcomes,
           Advance(r, p, o),
           \A q \in Requests \ {r} : sources'[q] = sources[q] /\ maps'[q] = maps[q],
           queue' \in [Pools -> Seq(Requests)]
    PROVE  /\ OnlyMoves(r) /\ Types' /\ phase'[r] = p
           /\ \A q \in Requests \ {r} : Loaded(q)'
<1>1. OnlyMoves(r) /\ Types' /\ phase'[r] = p
  BY DEF Advance, OnlyMoves, Types
<1>2. QED
  BY <1>1, OthersAreLeft DEF Reads

(* A step of one who neither waits nor comes to wait or read a target.     *)
LEMMA QuietStep ==
    ASSUME IInv, NEW r \in Requests, NEW p \in {"loading", "closing", "done"},
           NEW o \in Outcomes, Advance(r, p, o),
           phase[r] \in {"reading", "readTarget", "closing"},
           \A q \in Requests \ {r} : sources'[q] = sources[q] /\ maps'[q] = maps[q],
           queue' = queue
    PROVE  /\ Types' /\ Queues' /\ Slots' /\ phase'[r] = p
           /\ \A q \in Requests \ {r} : Loaded(q)'
<1>1. p \in Phases /\ queue' \in [Pools -> Seq(Requests)] /\ Types /\ Reads
  BY DEF Phases, IInv, Types
<1>2. /\ OnlyMoves(r) /\ Types' /\ phase'[r] = p
      /\ \A q \in Requests \ {r} : Loaded(q)'
  BY <1>1, AdvanceMoves
<1>3. ~ Waiting(r) /\ ~ Waiting(r)'
  BY <1>2 DEF Waiting
<1>4. Queues'
  BY <1>2, <1>3, NoWaiterMoves DEF IInv
<1>5. Slots'
  <2>1. HoldsSource(r) /\ ~ HoldsTarget(r)'
    BY <1>2 DEF HoldsSource, HoldsTarget
  <2>2. QED
    BY <1>2, <2>1, NoNewHolder DEF IInv
<1>6. QED
  BY <1>2, <1>4, <1>5

(* A request asks for a slot of the source.                                *)
LEMMA AskStep == ASSUME IInv, NEW r \in Requests, Ask(r) PROVE IInv'
<1>1. Types /\ Reads /\ phase[r] = "idle" /\ SourcePool(r) \in Pools
  BY PoolsTyped DEF Ask, IInv
<1>2. Advance(r, "waitSource", "none") /\ "waitSource" \in Phases /\ "none" \in Outcomes
  BY DEF Ask, Phases, Outcomes
<1>3. queue' \in [Pools -> Seq(Requests)]
  BY <1>1 DEF Ask, WaitFor, Types
<1>4. \A q \in Requests \ {r} : sources'[q] = sources[q] /\ maps'[q] = maps[q]
  BY DEF Ask
<1>5. /\ OnlyMoves(r) /\ Types' /\ phase'[r] = "waitSource"
      /\ \A q \in Requests \ {r} : Loaded(q)'
  BY <1>1, <1>2, <1>3, <1>4, AdvanceMoves
<1>6. Reads'
  <2>1. Loaded(r) /\ request' = request /\ sources' = sources /\ maps' = maps
    BY <1>1 DEF Reads, Ask, Advance
  <2>2. Loaded(r)'
    BY <1>1, <1>5, <2>1 DEF Loaded
  <2>3. QED
    BY <1>1, <1>5, <2>1, <2>2 DEF Reads
<1>7. Queues'
  <2>1. ~ Waiting(r) /\ Waiting(r)' /\ WaitPool(r)' = SourcePool(r)
    BY <1>1, <1>5 DEF Waiting, WaitPool, SourcePool, OnlyMoves
  <2>2. WaitFor(r, SourcePool(r))
    BY DEF Ask
  <2>3. QED
    BY <1>1, <1>5, <2>1, <2>2, OneMoreWaits DEF IInv, Types
<1>8. Slots'
  <2>1. ~ HoldsSource(r)' /\ ~ HoldsTarget(r)'
    BY <1>5 DEF HoldsSource, HoldsTarget
  <2>2. QED
    BY <1>5, <2>1, NoNewHolder DEF IInv
<1>9. QED
  BY <1>5, <1>6, <1>7, <1>8 DEF IInv

(* The source is read.                                                     *)
LEMMA ReadSourceStep == ASSUME IInv, NEW r \in Requests, ReadSource(r) PROVE IInv'
<1>1. Types /\ Reads /\ phase[r] = "reading" /\ maps[r] = <<>> /\ maps' = maps
        /\ queue' = queue /\ request[r].include \in Seq(Relations)
  BY RequestShape, PoolsTyped DEF ReadSource, IInv, Reads, Loaded
<1>2. PICK n \in 0 .. IF request[r].kind = "read" THEN 1 ELSE PageSize :
        /\ sources' \in {[sources EXCEPT ![r] = s] : s \in [1 .. n -> Keys \cup {Null}]}
        /\ CASE n > 0 -> Continue(r, 0, "none")
             [] n = 0 /\ request[r].kind = "list" -> Advance(r, "closing", "ok")
             [] OTHER -> Advance(r, "closing", "404")
  BY DEF ReadSource
<1>3. PICK s \in [1 .. n -> Keys \cup {Null}] : sources' = [sources EXCEPT ![r] = s]
  BY <1>2
<1>4. n \in Nat /\ n <= PageSize /\ s \in Seq(Keys \cup {Null}) /\ Len(s) = n
  BY BoundAssumption
<1>5. \A q \in Requests \ {r} : sources'[q] = sources[q] /\ maps'[q] = maps[q]
  BY <1>1, <1>3 DEF Reads
<1>6. PICK p \in {"loading", "closing"}, o \in Outcomes :
        /\ Advance(r, p, o)
        /\ p = "loading" => n > 0 /\ 0 < Len(request[r].include)
  BY <1>2, <1>4 DEF Continue, Outcomes
<1>7. /\ Types' /\ Queues' /\ Slots' /\ phase'[r] = p
      /\ \A q \in Requests \ {r} : Loaded(q)'
  BY <1>1, <1>5, <1>6, QuietStep
<1>8. Loaded(r)'
  <2>1. request' = request /\ sources'[r] = s /\ maps'[r] = <<>>
    BY <1>1, <1>3, <1>6 DEF Advance, Reads
  <2>2. n > 0 => sources'[r] # <<>>
    BY <1>4, <2>1
  <2>3. Len(maps'[r]) = 0 /\ Len(request[r].include) \in Nat
    BY <1>1, <2>1
  <2>4. maps'[r] \in Seq([DOMAIN sources'[r] -> 0 .. MaxRows])
    BY <2>1
  <2>5. QED
    BY <1>4, <1>6, <1>7, <2>1, <2>2, <2>3, <2>4 DEF Loaded
<1>9. Reads'
  BY <1>1, <1>3, <1>4, <1>7, <1>8 DEF Reads
<1>10. QED
  BY <1>7, <1>9 DEF IInv

(* The request asks for a slot of a target.                                *)
LEMMA OpenTargetStep == ASSUME IInv, NEW r \in Requests, OpenTarget(r) PROVE IInv'
<1>1. Types /\ Reads /\ Loaded(r) /\ phase[r] = "loading" /\ TargetPool(r) \in Pools
  BY PoolsTyped DEF OpenTarget, IInv, Reads, Loaded
<1>2. /\ Advance(r, "waitTarget", outcome[r]) /\ "waitTarget" \in Phases
      /\ outcome[r] \in Outcomes
  BY <1>1 DEF OpenTarget, Phases, Types
<1>3. queue' \in [Pools -> Seq(Requests)]
  BY <1>1 DEF OpenTarget, WaitFor, Types
<1>4. \A q \in Requests \ {r} : sources'[q] = sources[q] /\ maps'[q] = maps[q]
  BY DEF OpenTarget
<1>5. /\ OnlyMoves(r) /\ Types' /\ phase'[r] = "waitTarget"
      /\ \A q \in Requests \ {r} : Loaded(q)'
  BY <1>1, <1>2, <1>3, <1>4, AdvanceMoves
<1>6. Reads'
  <2>1. Loaded(r)'
    BY <1>1, <1>5 DEF Loaded, OpenTarget, OnlyMoves
  <2>2. QED
    BY <1>1, <1>5, <2>1 DEF Reads, OpenTarget
<1>7. Queues'
  <2>1. ~ Waiting(r) /\ Waiting(r)' /\ WaitPool(r)' = TargetPool(r)
    BY <1>1, <1>5 DEF Waiting, WaitPool, TargetPool, Current, OnlyMoves, OpenTarget
  <2>2. WaitFor(r, TargetPool(r))
    BY DEF OpenTarget
  <2>3. QED
    BY <1>1, <1>5, <2>1, <2>2, OneMoreWaits DEF IInv, Types
<1>8. Slots'
  <2>1. HoldsSource(r) /\ ~ HoldsTarget(r)'
    BY <1>1, <1>5 DEF HoldsSource, HoldsTarget
  <2>2. QED
    BY <1>5, <2>1, NoNewHolder DEF IInv
<1>9. QED
  BY <1>5, <1>6, <1>7, <1>8 DEF IInv

(* The transaction of a source ends, or the work in a transaction throws.  *)
LEMMA CloseStep ==
    ASSUME IInv, NEW r \in Requests, Close(r) \/ Throw(r) PROVE IInv'
<1>1. Types /\ Reads /\ queue' = queue /\ sources' = sources /\ maps' = maps
  BY DEF Close, Throw, IInv
<1>2. PICK p \in {"closing", "done"}, o \in Outcomes : Advance(r, p, o)
  BY <1>1 DEF Close, Throw, Outcomes, Types
<1>3. phase[r] \in {"reading", "readTarget", "closing"}
  BY DEF Close, Throw
<1>4. /\ Types' /\ Queues' /\ Slots' /\ phase'[r] = p
      /\ \A q \in Requests \ {r} : Loaded(q)'
  BY <1>1, <1>2, <1>3, QuietStep
<1>5. Loaded(r)'
  BY <1>1, <1>2, <1>4 DEF Loaded, Reads, Advance
<1>6. QED
  BY <1>1, <1>4, <1>5 DEF IInv, Reads

-----------------------------------------------------------------------------
(* There are no more key tuples to ask for than source records.            *)
LEMMA FewKeys ==
    ASSUME NEW r, sources[r] \in Seq(Keys \cup {Null})
    PROVE  /\ IsFiniteSet(QueryKeys(r)) /\ QueryKeys(r) \subseteq Keys
           /\ Cardinality(QueryKeys(r)) \in Nat
           /\ Cardinality(QueryKeys(r)) <= Len(sources[r])
<1>1. /\ Len(sources[r]) \in Nat /\ DOMAIN sources[r] = 1 .. Len(sources[r])
      /\ Range(sources[r]) \subseteq Keys \cup {Null}
      /\ sources[r] \in [1 .. Len(sources[r]) -> Range(sources[r])]
  BY DEF Range
<1>2. sources[r] \in Surjection(1 .. Len(sources[r]), Range(sources[r]))
  BY <1>1 DEF Surjection, Range
<1>3. /\ IsFiniteSet(1 .. Len(sources[r]))
      /\ Cardinality(1 .. Len(sources[r])) = Len(sources[r])
  BY <1>1, FS_Interval
<1>4. /\ IsFiniteSet(Range(sources[r]))
      /\ Cardinality(Range(sources[r])) <= Len(sources[r])
  BY <1>2, <1>3, FS_Surjection
<1>5. QueryKeys(r) \subseteq Range(sources[r])
  BY DEF QueryKeys
<1>6. /\ IsFiniteSet(QueryKeys(r)) /\ Cardinality(QueryKeys(r)) \in Nat
      /\ Cardinality(QueryKeys(r)) <= Cardinality(Range(sources[r]))
      /\ Cardinality(Range(sources[r])) \in Nat
  BY <1>4, <1>5, FS_Subset, FS_CardinalityType
<1>7. QED
  BY <1>1, <1>4, <1>6 DEF QueryKeys

(* The group of a key tuple is as large as there are records with it, if   *)
(* all were found, and no larger otherwise.                                *)
LEMMA GroupSize ==
    ASSUME Types, NEW r \in Requests, Current(r).to \in Resources,
           NEW k \in QueryKeys(r), k \in Keys, NEW found \in SUBSET Matching(r)
    PROVE  /\ rows[Current(r).to][k] \in 0 .. MaxRows
           /\ Cardinality(Group(found, k)) \in Nat
           /\ Cardinality(Group(found, k)) <= rows[Current(r).to][k]
           /\ found = Matching(r) =>
                Cardinality(Group(found, k)) = rows[Current(r).to][k]
<1> DEFINE n == rows[Current(r).to][k]
           all == {k} \X (1 .. n)
<1>1. n \in 0 .. MaxRows /\ MaxRows \in Nat /\ n \in Nat
  BY BoundAssumption DEF Types
<1>2. IsFiniteSet({k}) /\ Cardinality({k}) = 1
  BY FS_Singleton
<1>3. IsFiniteSet(1 .. n) /\ Cardinality(1 .. n) = n
  <2> HIDE DEF n
  <2>1. QED
    BY <1>1, FS_Interval
<1>4. IsFiniteSet(all) /\ Cardinality(all) = 1 * n
  BY <1>2, <1>3, FS_Product
<1>5. Cardinality(all) = n
  BY <1>1, <1>4
<1>6. Group(found, k) \subseteq all
  BY DEF Group, Matching
<1>7. found = Matching(r) => all \subseteq Group(found, k)
  BY <1>1 DEF Group, Matching
<1>8. /\ Cardinality(Group(found, k)) \in Nat
      /\ Cardinality(Group(found, k)) <= Cardinality(all)
  BY <1>4, <1>6, FS_Subset, FS_CardinalityType
<1>9. found = Matching(r) => Cardinality(Group(found, k)) = Cardinality(all)
  BY <1>6, <1>7
<1>10. QED
  BY <1>1, <1>5, <1>8, <1>9

(* The target is read: the matches of every source are added, or the       *)
(* request is refused.                                                     *)
LEMMA ReadTargetStep == ASSUME IInv, NEW r \in Requests, ReadTarget(r) PROVE IInv'
<1>1. /\ Types /\ Reads /\ Loaded(r) /\ phase[r] = "readTarget" /\ queue' = queue
      /\ sources' = sources /\ Current(r).to \in Resources /\ outcome[r] \in Outcomes
      /\ Len(maps[r]) < Len(request[r].include)
      /\ request[r].include \in Seq(Relations)
  BY PoolsTyped, RequestShape DEF ReadTarget, IInv, Reads, Loaded, Types
<1>2. PICK found \in Fetched(r) :
        IF Exceeds(r, found)
        THEN Advance(r, "closing", "422") /\ UNCHANGED maps
        ELSE /\ Continue(r, Len(maps[r]) + 1, outcome[r])
             /\ maps' = [maps EXCEPT ![r] = Append(@,
                    [i \in DOMAIN sources[r] |->
                        IF sources[r][i] = Null THEN 0
                        ELSE Cardinality(Group(found, sources[r][i]))])]
  BY DEF ReadTarget
<1> DEFINE matches == [i \in DOMAIN sources[r] |->
                        IF sources[r][i] = Null THEN 0
                        ELSE Cardinality(Group(found, sources[r][i]))]
<1>3. matches \in [DOMAIN sources[r] -> 0 .. MaxRows]
  <2> SUFFICES ASSUME NEW i \in DOMAIN sources[r] PROVE matches[i] \in 0 .. MaxRows
    OBVIOUS
  <2>1. CASE sources[r][i] = Null
    BY <2>1, BoundAssumption
  <2>2. CASE sources[r][i] # Null
    <3>1. sources[r][i] \in QueryKeys(r) /\ sources[r] \in Seq(Keys \cup {Null})
      BY <1>1, <2>2 DEF QueryKeys, Range, Loaded
    <3>2. sources[r][i] \in Keys /\ found \in SUBSET Matching(r)
      BY <3>1, FewKeys DEF Fetched
    <3>3. /\ Cardinality(Group(found, sources[r][i])) \in Nat
          /\ Cardinality(Group(found, sources[r][i]))
                <= rows[Current(r).to][sources[r][i]]
          /\ rows[Current(r).to][sources[r][i]] \in 0 .. MaxRows
      BY <1>1, <3>1, <3>2, GroupSize
    <3>4. QED
      BY <2>2, <3>3, BoundAssumption
  <2>3. QED
    BY <2>1, <2>2
<1>4. maps' = maps \/ maps' = [maps EXCEPT ![r] = Append(maps[r], matches)]
  BY <1>2
<1>5. \A q \in Requests \ {r} : sources'[q] = sources[q] /\ maps'[q] = maps[q]
  BY <1>1, <1>4 DEF Reads
<1>6. PICK p \in {"loading", "closing"}, o \in Outcomes :
        /\ Advance(r, p, o)
        /\ p = "loading" => /\ maps' = [maps EXCEPT ![r] = Append(maps[r], matches)]
                            /\ Len(maps[r]) + 1 < Len(request[r].include)
  BY <1>1, <1>2 DEF Continue, Outcomes
<1>7. /\ Types' /\ Queues' /\ Slots' /\ phase'[r] = p
      /\ \A q \in Requests \ {r} : Loaded(q)'
  BY <1>1, <1>5, <1>6, QuietStep
<1>8. Loaded(r)'
  <2>1. request' = request
    BY <1>6 DEF Advance
  <2>2. CASE maps' = maps
    BY <1>1, <1>6, <1>7, <2>1, <2>2 DEF Loaded
  <2>3. CASE maps' = [maps EXCEPT ![r] = Append(maps[r], matches)]
    <3>1. maps'[r] = Append(maps[r], matches)
      BY <1>1, <2>3 DEF Reads
    <3>2. /\ maps'[r] \in Seq([DOMAIN sources[r] -> 0 .. MaxRows])
          /\ Len(maps'[r]) = Len(maps[r]) + 1
          /\ Len(maps[r]) \in Nat /\ Len(request[r].include) \in Nat
      BY <1>1, <1>3, <3>1 DEF Loaded
    <3>3. QED
      BY <1>1, <1>6, <1>7, <2>1, <3>2 DEF Loaded
  <2>4. QED
    BY <1>4, <2>2, <2>3
<1>9. Reads'
  BY <1>1, <1>4, <1>7, <1>8 DEF Reads
<1>10. QED
  BY <1>7, <1>9 DEF IInv

(* A free slot goes to the first in the queue.                             *)
LEMMA GrantStep == ASSUME IInv, NEW p \in Pools, Grant(p) PROVE IInv'
<1>0. /\ Types /\ Reads /\ Queues /\ queue[p] \in Seq(Requests) /\ queue[p] # <<>>
      /\ Head(queue[p]) \in Requests /\ Head(queue[p]) \in Range(queue[p])
      /\ Tail(queue[p]) \in Seq(Requests)
  BY TailOfQueue DEF Grant, IInv, Types, Queues
<1>1. PICK r \in Requests, next \in {"reading", "readTarget"} :
        /\ r = Head(queue[p])
        /\ next = IF phase[r] = "waitSource" THEN "reading" ELSE "readTarget"
        /\ Types /\ Reads /\ Queues /\ queue[p] \in Seq(Requests) /\ queue[p] # <<>>
        /\ sources' = sources /\ maps' = maps /\ Advance(r, next, outcome[r])
        /\ queue' = [queue EXCEPT ![p] = Tail(@)] /\ Used(p) < Capacity[p]
  BY <1>0 DEF Grant
<1>2. r \in Requests /\ r \in Range(queue[p]) /\ Tail(queue[p]) \in Seq(Requests)
  BY <1>0, <1>1
<1>3. Waiting(r) /\ WaitPool(r) = p
  BY <1>1, <1>2 DEF Queues
<1>4. next \in Phases /\ outcome[r] \in Outcomes
  BY <1>1, <1>2 DEF Phases, Types
<1>5. queue' \in [Pools -> Seq(Requests)]
  BY <1>1, <1>2 DEF Types
<1>6. /\ OnlyMoves(r) /\ Types' /\ phase'[r] = next
      /\ \A q \in Requests \ {r} : Loaded(q)'
  BY <1>1, <1>2, <1>4, <1>5, AdvanceMoves
<1>7. Reads'
  <2>1. Loaded(r) /\ request' = request
    BY <1>1, <1>2 DEF Reads, Advance
  <2>2. Loaded(r)'
    BY <1>1, <1>3, <1>6, <2>1 DEF Loaded, Waiting
  <2>3. QED
    BY <1>1, <1>6, <2>2 DEF Reads
<1>8. Queues'
  <2>1. ~ Waiting(r)'
    BY <1>1, <1>6 DEF Waiting
  <2>2. QED
    BY <1>1, <1>2, <1>6, <2>1, OneFewerWaits DEF Types
<1>9. Slots'
  <2> SUFFICES ASSUME NEW o \in Pools
               PROVE  /\ IsFiniteSet(SourceHolders(o)') /\ IsFiniteSet(TargetHolders(o)')
                      /\ Used(o)' <= Capacity[o]
    BY DEF Slots
  <2>1. /\ IsFiniteSet(SourceHolders(o)) /\ IsFiniteSet(TargetHolders(o))
        /\ Used(o) <= Capacity[o] /\ Capacity[o] \in Nat
    BY PoolAssumption DEF IInv, Slots
  <2>2. /\ Cardinality(SourceHolders(o)) \in Nat /\ Cardinality(TargetHolders(o)) \in Nat
        /\ Used(o) = Cardinality(SourceHolders(o)) + Cardinality(TargetHolders(o))
    BY <2>1, UsedByHolders, FS_CardinalityType
  <2>3. Used(o)' = Cardinality(SourceHolders(o)') + Cardinality(TargetHolders(o)')
    BY DEF Used, SourceHolders, TargetHolders
  <2>4. SourcePool(r)' = SourcePool(r) /\ TargetPool(r)' = TargetPool(r)
    BY <1>1, <1>6 DEF OnlyMoves, SourcePool, TargetPool, Current
  <2>5. CASE phase[r] = "waitSource"
    <3>1. /\ ~ HoldsSource(r) /\ HoldsSource(r)' /\ ~ HoldsTarget(r) /\ ~ HoldsTarget(r)'
          /\ SourcePool(r) = p
      BY <1>1, <1>3, <1>6, <2>5 DEF HoldsSource, HoldsTarget, WaitPool
    <3>2. /\ SourceHolders(o)' = SourceHolders(o) \cup (IF o = p THEN {r} ELSE {})
          /\ r \notin SourceHolders(o)
      BY <1>2, <1>6, <2>4, <3>1, OthersAreLeft DEF SourceHolders
    <3>3. TargetHolders(o)' = TargetHolders(o)
      BY <1>2, <1>6, <3>1, OthersAreLeft DEF TargetHolders
    <3>4. CASE o = p
      <4>1. SourceHolders(o)' = SourceHolders(o) \cup {r}
        BY <3>2, <3>4
      <4>2. /\ IsFiniteSet(SourceHolders(o)')
            /\ Cardinality(SourceHolders(o)') = Cardinality(SourceHolders(o)) + 1
        BY <2>1, <3>2, <4>1, FS_AddElement
      <4>3. QED
        BY <1>1, <2>1, <2>2, <2>3, <3>3, <3>4, <4>2
    <3>5. CASE o # p
      BY <2>1, <2>2, <2>3, <3>2, <3>3, <3>5
    <3>6. QED
      BY <3>4, <3>5
  <2>6. CASE phase[r] # "waitSource"
    <3>1. /\ HoldsSource(r) /\ HoldsSource(r)' /\ ~ HoldsTarget(r) /\ HoldsTarget(r)'
          /\ TargetPool(r) = p
      BY <1>1, <1>3, <1>6, <2>6 DEF HoldsSource, HoldsTarget, Waiting, WaitPool
    <3>2. /\ TargetHolders(o)' = TargetHolders(o) \cup (IF o = p THEN {r} ELSE {})
          /\ r \notin TargetHolders(o)
      BY <1>2, <1>6, <2>4, <3>1, OthersAreLeft DEF TargetHolders
    <3>3. SourceHolders(o)' = SourceHolders(o)
      BY <1>2, <1>6, <2>4, <3>1, OthersAreLeft DEF SourceHolders
    <3>4. CASE o = p
      <4>1. TargetHolders(o)' = TargetHolders(o) \cup {r}
        BY <3>2, <3>4
      <4>2. /\ IsFiniteSet(TargetHolders(o)')
            /\ Cardinality(TargetHolders(o)') = Cardinality(TargetHolders(o)) + 1
        BY <2>1, <3>2, <4>1, FS_AddElement
      <4>3. QED
        BY <1>1, <2>1, <2>2, <2>3, <3>3, <3>4, <4>2
    <3>5. CASE o # p
      BY <2>1, <2>2, <2>3, <3>2, <3>3, <3>5
    <3>6. QED
      BY <3>4, <3>5
  <2>7. QED
    BY <2>5, <2>6
<1>10. QED
  BY <1>6, <1>7, <1>8, <1>9 DEF IInv

(* Where no request moves, nothing changes in slots and queues.            *)
LEMMA NobodyMoves ==
    ASSUME Reads, Queues, Slots, UNCHANGED <<request, phase, sources, maps, queue>>
    PROVE  Reads' /\ Queues' /\ Slots'
<1>1. \A r : /\ SourcePool(r)' = SourcePool(r) /\ TargetPool(r)' = TargetPool(r)
             /\ HoldsSource(r)' = HoldsSource(r) /\ HoldsTarget(r)' = HoldsTarget(r)
  BY DEF SourcePool, TargetPool, Current, HoldsSource, HoldsTarget
<1>2. \A r : Waiting(r)' = Waiting(r) /\ WaitPool(r)' = WaitPool(r)
  BY <1>1 DEF Waiting, WaitPool
<1>3. \A r : Loaded(r)' = Loaded(r)
  BY DEF Loaded
<1>4. \A p : SourceHolders(p)' = SourceHolders(p) /\ TargetHolders(p)' = TargetHolders(p)
  BY <1>1 DEF SourceHolders, TargetHolders
<1>5. \A p : Used(p)' = Used(p)
  BY <1>1 DEF Used
<1>6. Reads'
  BY <1>3 DEF Reads
<1>7. Queues'
  BY <1>2 DEF Queues, Range, IsInjective
<1>8. Slots'
  BY <1>4, <1>5 DEF Slots
<1>9. QED
  BY <1>6, <1>7, <1>8

(* Somebody else writes when nobody is in the way.                         *)
LEMMA WriteStep ==
    ASSUME IInv, NEW t \in Resources, NEW k \in Keys, Write(t, k) PROVE IInv'
<1>1. /\ UNCHANGED <<request, phase, sources, maps, outcome, queue>>
      /\ writes < MaxWrites /\ writes' = writes + 1
  BY DEF Write
<1>2. PICK n \in 0 .. MaxRows : rows' = [rows EXCEPT ![t][k] = n]
  BY DEF Write
<1>3. Types'
  <2>1. rows' \in [Resources -> [Keys -> 0 .. MaxRows]]
    BY <1>2 DEF IInv, Types
  <2>2. writes' \in 0 .. MaxWrites
    BY <1>1, BoundAssumption DEF IInv, Types
  <2>3. QED
    BY <1>1, <2>1, <2>2 DEF IInv, Types
<1>4. Reads' /\ Queues' /\ Slots'
  BY <1>1, NobodyMoves DEF IInv
<1>5. QED
  BY <1>3, <1>4 DEF IInv

LEMMA StepIInv == IInv /\ [Next]_vars => IInv'
<1> SUFFICES ASSUME IInv, [Next]_vars PROVE IInv'
  OBVIOUS
<1>1. CASE UNCHANGED vars
  BY <1>1, NobodyMoves DEF vars, IInv, Types
<1>2. ASSUME NEW r \in Requests, Ask(r) \/ Progress(r) \/ Throw(r)
      PROVE  IInv'
  BY <1>2, AskStep, ReadSourceStep, OpenTargetStep, ReadTargetStep, CloseStep DEF Progress
<1>3. ASSUME NEW p \in Pools, Grant(p)
      PROVE  IInv'
  BY <1>3, GrantStep
<1>4. ASSUME NEW t \in Resources, NEW k \in Keys, Write(t, k)
      PROVE  IInv'
  BY <1>4, WriteStep
<1>5. QED
  BY <1>1, <1>2, <1>3, <1>4 DEF Next, AllDone

LEMMA Invariance == Spec => []IInv
BY InitIInv, StepIInv, PTL DEF Spec

(* Every request, queue and record has its type, and no pool ever gives    *)
(* out more slots than it has.                                             *)
THEOREM TypeCorrect == Spec => []TypeOK
<1>1. IInv => TypeOK
  <2> SUFFICES ASSUME IInv PROVE TypeOK
    OBVIOUS
  <2>1. ASSUME NEW r \in Requests
        PROVE  /\ Len(sources[r]) <= PageSize
               /\ QueryKeys(r) \subseteq Keys
               /\ Len(maps[r]) <= Len(request[r].include)
               /\ \A i \in DOMAIN maps[r] :
                    maps[r][i] \in [DOMAIN sources[r] -> 0 .. MaxRows]
    <3>1. Loaded(r)
      BY DEF IInv, Reads
    <3>2. QED
      BY <3>1, FewKeys DEF Loaded
  <2>2. QED
    BY <2>1 DEF TypeOK, IInv, Types, Slots
<1>2. QED
  BY <1>1, Invariance, PTL

(* While a request is under way one of them can go on, whatever the        *)
(* interleaving, if the relations lead around no cycle of pools; README    *)
(* tells what happens if they do.                                          *)
THEOREM Progressing == ASSUME NoCycle PROVE Spec => []SomebodyCanMove
<1>1. IInv => SomebodyCanMove
  <2> SUFFICES ASSUME IInv, NEW first \in Requests, phase[first] \notin {"idle", "done"},
                      \A r \in Requests : phase[r] \notin {"reading", "loading",
                                                           "readTarget", "closing"},
                      \A p \in Pools : queue[p] # <<>> => ~ (Used(p) < Capacity[p])
               PROVE  FALSE
    BY DEF SomebodyCanMove
  <2> DEFINE awaited == {p \in Pools : queue[p] # <<>>}
  <2>1. \A r \in Requests : Waiting(r) => WaitPool(r) \in awaited
    <3> SUFFICES ASSUME NEW r \in Requests, Waiting(r) PROVE WaitPool(r) \in awaited
      OBVIOUS
    <3>1. WaitPool(r) \in Pools
      BY PoolsTyped DEF IInv, Reads, Loaded, Waiting, WaitPool
    <3>2. r \in Range(queue[WaitPool(r)])
      BY <3>1 DEF IInv, Queues
    <3>3. QED
      BY <3>1, <3>2 DEF Range
  <2>2. Waiting(first)
    BY DEF IInv, Types, Phases, Waiting
  <2>3. PICK p \in awaited : \A x \in Relations :
            PoolOf[x.from] = p => PoolOf[x.to] \notin awaited
    BY <2>1, <2>2 DEF NoCycle
  <2>4. SourceHolders(p) # {} \/ TargetHolders(p) # {}
    <3> SUFFICES ASSUME SourceHolders(p) = {}, TargetHolders(p) = {} PROVE FALSE
      OBVIOUS
    <3>1. Cardinality(SourceHolders(p)) = 0 /\ Cardinality(TargetHolders(p)) = 0
      BY FS_EmptySet
    <3>2. Used(p) = Cardinality(SourceHolders(p)) + Cardinality(TargetHolders(p))
      BY UsedByHolders
    <3>3. Capacity[p] \in Nat \ {0}
      BY PoolAssumption
    <3>4. QED
      BY <3>1, <3>2, <3>3
  <2>5. TargetHolders(p) = {}
    BY DEF TargetHolders, HoldsTarget
  <2>6. PICK r \in Requests : HoldsSource(r) /\ SourcePool(r) = p
    BY <2>4, <2>5 DEF SourceHolders
  <2>7. phase[r] = "waitTarget"
    BY <2>6 DEF HoldsSource
  <2>8. /\ Current(r) \in Relations /\ PoolOf[Current(r).from] = p
        /\ WaitPool(r) = PoolOf[Current(r).to]
    BY <2>6, <2>7, PoolsTyped DEF IInv, Reads, Loaded, SourcePool, TargetPool, WaitPool
  <2>9. Waiting(r)
    BY <2>7 DEF Waiting
  <2>10. QED
    BY <2>1, <2>3, <2>8, <2>9
<1>2. QED
  BY <1>1, Invariance, PTL

-----------------------------------------------------------------------------
(* A step that changes what a request has loaded, or refuses it as         *)
(* unprocessable, is a read of its target.                                 *)
LEMMA OnlyReadTarget ==
    ASSUME IInv, [Next]_vars, NEW r \in Requests,
           maps'[r] # maps[r] \/ (outcome'[r] = "422" /\ outcome[r] # "422")
    PROVE  ReadTarget(r)
<1>1. outcome \in [Requests -> Outcomes] /\ DOMAIN maps = Requests
  BY DEF IInv, Types, Reads
<1>2. ASSUME NEW q \in Requests, NEW p, NEW o, Advance(q, p, o), maps' = maps,
             o # "422" \/ o = outcome[q]
      PROVE  FALSE
  BY <1>1, <1>2 DEF Advance
<1>3. ASSUME NEW q \in Requests, Ask(q) \/ ReadSource(q) \/ OpenTarget(q) \/ Close(q) \/ Throw(q)
      PROVE  FALSE
  <2>1. CASE ReadSource(q)
    <3>1. maps' = maps /\ \E p \in {"loading", "closing"}, o \in {"none", "ok", "404"} :
            Advance(q, p, o)
      BY <2>1 DEF ReadSource, Continue
    <3>2. QED
      BY <3>1, <1>2
  <2>2. CASE Ask(q) \/ OpenTarget(q) \/ Close(q) \/ Throw(q)
    BY <2>2, <1>2 DEF Ask, OpenTarget, Close, Throw
  <2>3. QED
    BY <1>3, <2>1, <2>2
<1>4. ASSUME NEW p \in Pools, Grant(p)
      PROVE  FALSE
  <2>1. Head(queue[p]) \in Requests
    BY <1>4, TailOfQueue DEF Grant, IInv, Types, Queues
  <2>2. QED
    BY <1>4, <2>1, <1>2 DEF Grant
<1>5. ASSUME NEW q \in Requests, ReadTarget(q), q # r
      PROVE  FALSE
  <2>1. maps'[r] = maps[r]
    BY <1>1, <1>5 DEF ReadTarget
  <2>2. outcome'[r] = outcome[r]
    BY <1>1, <1>5 DEF ReadTarget, Continue, Advance
  <2>3. QED
    BY <2>1, <2>2
<1>6. ASSUME UNCHANGED vars \/ AllDone \/ \E t \in Resources, k \in Keys : Write(t, k)
      PROVE  FALSE
  BY <1>6 DEF vars, AllDone, Write
<1>7. QED
  BY <1>3, <1>4, <1>5, <1>6 DEF Next, Progress

(* What a request knows when it reads a target.                            *)
LEMMA AtReadTarget ==
    ASSUME IInv, NEW r \in Requests, ReadTarget(r)
    PROVE  /\ Types /\ Loaded(r) /\ maps[r] \in Seq([DOMAIN sources[r] -> 0 .. MaxRows])
           /\ sources[r] \in Seq(Keys \cup {Null})
           /\ Current(r).to \in Resources /\ Bound(Current(r)) \in Nat \ {0}
           /\ Len(sources[r]) \in Nat \ {0} /\ DOMAIN maps = Requests
           /\ QueryKeys(r) \subseteq Keys /\ IsFiniteSet(QueryKeys(r))
           /\ Cardinality(QueryKeys(r)) \in 0 .. Len(sources[r])
           /\ IsFiniteSet(Matching(r)) /\ Cardinality(Matching(r)) \in Nat
<1>1. /\ Types /\ Loaded(r) /\ maps[r] \in Seq([DOMAIN sources[r] -> 0 .. MaxRows])
      /\ sources[r] \in Seq(Keys \cup {Null}) /\ DOMAIN maps = Requests
      /\ sources[r] # <<>>
      /\ Len(maps[r]) < Len(request[r].include)
  BY DEF IInv, Reads, Loaded, ReadTarget
<1>2. Current(r).to \in Resources /\ Current(r).many \in BOOLEAN
  BY <1>1, PoolsTyped
<1>3. Bound(Current(r)) \in Nat \ {0}
  BY BoundAssumption DEF Bound
<1>4. Len(sources[r]) \in Nat \ {0}
  BY <1>1
<1>5. /\ QueryKeys(r) \subseteq Keys /\ IsFiniteSet(QueryKeys(r))
      /\ Cardinality(QueryKeys(r)) \in 0 .. Len(sources[r])
  BY <1>1, <1>4, FewKeys
<1>6. IsFiniteSet(Matching(r)) /\ Cardinality(Matching(r)) \in Nat
  <2>1. IsFiniteSet(1 .. MaxRows)
    BY BoundAssumption, FS_Interval
  <2>2. IsFiniteSet(QueryKeys(r) \X (1 .. MaxRows))
    BY <1>5, <2>1, FS_Product
  <2>3. Matching(r) \subseteq QueryKeys(r) \X (1 .. MaxRows)
    BY DEF Matching
  <2>4. QED
    BY <2>2, <2>3, FS_Subset, FS_CardinalityType
<1>7. QED
  BY <1>1, <1>2, <1>3, <1>4, <1>5, <1>6

(* The matches that a response shows of a source record are all there are  *)
(* when the relation is read: below its limit the query returned all.      *)
THEOREM Complete == Spec => NeverTruncated
<1>1. IInv /\ [Next]_vars =>
        [\A r \in Requests : maps'[r] # maps[r] =>
            \A i \in DOMAIN sources[r] :
                maps'[r][Len(maps'[r])][i] =
                    IF sources[r][i] = Null THEN 0
                    ELSE rows[Current(r).to][sources[r][i]]]_vars
  <2> SUFFICES ASSUME IInv, [Next]_vars, NEW r \in Requests, maps'[r] # maps[r],
                      NEW i \in DOMAIN sources[r]
               PROVE  maps'[r][Len(maps'[r])][i] =
                        IF sources[r][i] = Null THEN 0
                        ELSE rows[Current(r).to][sources[r][i]]
    OBVIOUS
  <2>1. ReadTarget(r)
    BY OnlyReadTarget
  <2> DEFINE matches(found) ==
                [j \in DOMAIN sources[r] |->
                    IF sources[r][j] = Null THEN 0
                    ELSE Cardinality(Group(found, sources[r][j]))]
  <2>2. PICK found \in Fetched(r) :
            /\ ~ Exceeds(r, found)
            /\ maps' = [maps EXCEPT ![r] = Append(maps[r], matches(found))]
    BY <2>1 DEF ReadTarget
  <2>3. found \in SUBSET Matching(r) /\ Cardinality(found) # Limit(r)
    <3>1. IsFiniteSet(found) /\ Cardinality(found) \in Nat
      BY <2>1, AtReadTarget, FS_Subset, FS_CardinalityType DEF Fetched
    <3>2. Limit(r) \in Nat
      <4>1. Bound(Current(r)) \in Nat \ {0} /\ Len(sources[r]) \in Nat \ {0}
        BY <2>1, AtReadTarget
      <4>2. Bound(Current(r)) + 1 \in Nat /\ Len(sources[r]) \in Nat
        BY <4>1
      <4>3. QED
        BY <4>2 DEF Limit
    <3>3. ~ (Cardinality(found) >= Limit(r))
      BY <2>2 DEF Exceeds
    <3>4. QED
      BY <3>1, <3>2, <3>3 DEF Fetched
  <2>4. found = Matching(r)
    BY <2>3 DEF Fetched
  <2>5. maps'[r][Len(maps'[r])] = matches(found)
    <3>1. maps'[r] = Append(maps[r], matches(found))
      BY <2>1, <2>2, AtReadTarget
    <3>2. maps[r] \in Seq([DOMAIN sources[r] -> 0 .. MaxRows])
      BY <2>1, AtReadTarget
    <3> HIDE DEF matches
    <3>3. QED
      BY <3>1, <3>2
  <2>6. CASE sources[r][i] # Null
    <3>1. sources[r][i] \in QueryKeys(r) /\ sources[r][i] \in Keys
      BY <2>1, <2>6, AtReadTarget DEF QueryKeys, Range
    <3>2. Cardinality(Group(found, sources[r][i])) = rows[Current(r).to][sources[r][i]]
      BY <2>1, <2>4, <3>1, AtReadTarget, GroupSize
    <3>3. QED
      BY <2>5, <2>6, <3>2
  <2>7. QED
    BY <2>5, <2>6
<1>2. QED
  BY <1>1, Invariance, PTL DEF Spec, NeverTruncated

(* A request is refused as unprocessable only for a source record that has *)
(* more related records than the bound: if every source kept its bound,    *)
(* all of them together would stay below the limit.                        *)
THEOREM RefusedRightly == Spec => RefusedOnlyOverBound
<1>1. IInv /\ [Next]_vars =>
        [\A r \in Requests :
            (outcome'[r] = "422" /\ outcome[r] # "422") =>
                \E k \in QueryKeys(r) :
                    rows[Current(r).to][k] > Bound(Current(r))]_vars
  <2> SUFFICES ASSUME IInv, [Next]_vars, NEW r \in Requests,
                      outcome'[r] = "422", outcome[r] # "422",
                      \A k \in QueryKeys(r) :
                            ~ (rows[Current(r).to][k] > Bound(Current(r)))
               PROVE  FALSE
    OBVIOUS
  <2> DEFINE b == Bound(Current(r))
             n == Len(sources[r])
             q == Cardinality(QueryKeys(r))
  <2>1. ReadTarget(r)
    BY OnlyReadTarget
  <2>2. PICK found \in Fetched(r) : Exceeds(r, found)
    <3>1. outcome \in [Requests -> Outcomes]
      BY DEF IInv, Types
    <3>2. QED
      BY <2>1, <3>1 DEF ReadTarget, Continue, Advance
  <2>3. found \in SUBSET Matching(r)
    BY DEF Fetched
  <2>4. \A k \in QueryKeys(r) : ~ (Cardinality(Group(found, k)) > b)
    <3> SUFFICES ASSUME NEW k \in QueryKeys(r)
                 PROVE  ~ (Cardinality(Group(found, k)) > b)
      OBVIOUS
    <3>1. /\ rows[Current(r).to][k] \in 0 .. MaxRows
          /\ Cardinality(Group(found, k)) \in Nat
          /\ Cardinality(Group(found, k)) <= rows[Current(r).to][k]
      BY <2>1, <2>3, AtReadTarget, GroupSize
    <3>2. b \in Nat \ {0}
      BY <2>1, AtReadTarget
    <3>3. ~ (rows[Current(r).to][k] > b)
      OBVIOUS
    <3> HIDE DEF b
    <3>4. QED
      BY <3>1, <3>2, <3>3, BoundAssumption
  <2>5. Cardinality(found) >= Limit(r)
    BY <2>2, <2>4 DEF Exceeds
  <2>6. b \in Nat \ {0} /\ n \in Nat \ {0} /\ q \in 0 .. n /\ IsFiniteSet(QueryKeys(r))
    BY <2>1, AtReadTarget
  <2>7. Matching(r) \subseteq QueryKeys(r) \X (1 .. b)
    <3> SUFFICES ASSUME NEW k \in QueryKeys(r), NEW i \in 1 .. MaxRows,
                        i <= rows[Current(r).to][k]
                 PROVE  i \in 1 .. b
      BY DEF Matching
    <3>1. rows[Current(r).to][k] \in 0 .. MaxRows /\ MaxRows \in Nat
      BY <2>1, AtReadTarget, BoundAssumption DEF Types
    <3>2. ~ (rows[Current(r).to][k] > b)
      OBVIOUS
    <3> HIDE DEF b
    <3>3. QED
      BY <2>6, <3>1, <3>2
  <2> HIDE DEF b, n, q
  <2>8. IsFiniteSet(1 .. b) /\ Cardinality(1 .. b) = b
    BY <2>6, FS_Interval
  <2>9. /\ IsFiniteSet(QueryKeys(r) \X (1 .. b))
        /\ Cardinality(QueryKeys(r) \X (1 .. b)) = q * b
    BY <2>6, <2>8, FS_Product DEF q
  <2>10. Cardinality(found) \in Nat /\ Cardinality(found) <= q * b
    BY <2>3, <2>7, <2>9, FS_Subset, FS_CardinalityType
  <2>11. q * b <= n * b /\ (b + 1) * n = n * b + n
    BY <2>6
  <2>12. Limit(r) = (b + 1) * n
    BY DEF Limit, b, n
  <2>13. Cardinality(found) < Limit(r)
    BY <2>6, <2>10, <2>11, <2>12
  <2>14. QED
    BY <2>5, <2>6, <2>10, <2>12, <2>13
<1>2. QED
  BY <1>1, Invariance, PTL DEF Spec, RefusedOnlyOverBound

=============================================================================
