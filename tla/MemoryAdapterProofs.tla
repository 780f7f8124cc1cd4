------------------------ MODULE MemoryAdapterProofs ------------------------
(***************************************************************************)
(* MemoryAdapter for every set of clients, slots, fields, records and      *)
(* unique tuples, and every number of calls.                               *)
(*                                                                         *)
(* The lock.  LockExclusion is not inductive: that a call waits for its    *)
(* predecessor says nothing of the calls before that one.  LockInv adds    *)
(* that the resolved promises are an initial segment of the chain, that    *)
(* calls in progress own distinct unresolved promises, and that whoever    *)
(* is inside has its predecessor resolved.  Two calls inside would then    *)
(* have one of their promises among the resolved ones.                     *)
(*                                                                         *)
(* The data.  DataInv adds to the safety properties that the live sessions *)
(* are exactly those of clients at work, and that a transaction's copy is  *)
(* what its client was told and, once it has landed, what landed.          *)
(***************************************************************************)
EXTENDS MemoryAdapter, TLAPS

LockInv ==
    /\ 0 \in resolved
    /\ \A n \in resolved : \A m \in 0 .. n : m \in resolved
    /\ \A c \in Clients :
        pc[c] # "idle" => call[c] > 0 /\ call[c] \notin resolved
    /\ \A c, d \in Clients :
        pc[c] # "idle" /\ pc[d] # "idle" /\ call[c] = call[d] => c = d
    /\ \A c \in Clients : Inside(c) => Admitted(c)

DataInv ==
    /\ \A c \in Clients : c \in active <=> pc[c] = "working"
    /\ \A c \in Clients : txn[c] = told[c]
    /\ \A c \in Clients :
        landed[c] # NoTable => c \notin active /\ landed[c] = txn[c]
    /\ NoLostUpdate
    /\ UniqueHolds

-----------------------------------------------------------------------------
(* What a create, update or delete leaves behind is a table again.         *)
LEMMA OutcomesAreTables ==
    ASSUME NEW t \in Table,
           NEW u \in Created(t) \cup Updated(t) \cup Deleted(t)
    PROVE  u \in Table
<1>1. CASE u \in Deleted(t)
  BY <1>1 DEF Deleted, Table
<1>2. CASE u \in Created(t)
  <2>1. PICK sr \in Slots \X Records : u = [t EXCEPT ![sr[1]] = sr[2]]
    BY <1>2 DEF Created
  <2>2. QED
    BY <2>1 DEF Table
<1>3. CASE u \in Updated(t)
  <2>1. PICK sr \in Slots \X Records : u = [t EXCEPT ![sr[1]] = sr[2]]
    BY <1>3 DEF Updated
  <2>2. QED
    BY <2>1 DEF Table
<1>4. QED
  BY <1>1, <1>2, <1>3

(* A create, update or delete brings in no duplicate, whatever duplicates   *)
(* the table has: the record it writes clashes with no other.              *)
LEMMA OutcomesAddNoDuplicate ==
    ASSUME NEW t \in Table,
           NEW u \in Created(t) \cup Updated(t) \cup Deleted(t)
    PROVE  AddsNoDuplicate(t, u)
<1>1. ASSUME NEW s \in Slots, NEW r \in Records, ~ Conflict(t, r, s),
             u = [t EXCEPT ![s] = r]
      PROVE  AddsNoDuplicate(t, u)
  <2>1. u[s] = r /\ \A a \in Slots \ {s} : u[a] = t[a]
    BY <1>1 DEF Table
  <2>2. ASSUME NEW fields \in Unique, NEW a \in Slots, NEW b \in Slots,
               Duplicates(u, fields, a, b)
        PROVE  a # s /\ b # s
    <3>1. CASE a = s
      <4>1. u[b] = t[b] /\ t[b] # NoRecord /\ b # s /\ Clash(t[b], r, fields)
        BY <2>1, <2>2, <3>1 DEF Duplicates, Clash, Complete
      <4>2. QED
        BY <4>1, <1>1 DEF Conflict
    <3>2. CASE b = s
      <4>1. u[a] = t[a] /\ t[a] # NoRecord /\ a # s /\ Clash(t[a], r, fields)
        BY <2>1, <2>2, <3>2 DEF Duplicates
      <4>2. QED
        BY <4>1, <1>1 DEF Conflict
    <3>3. QED
      BY <3>1, <3>2
  <2>3. QED
    BY <2>1, <2>2 DEF AddsNoDuplicate, Duplicates
<1>2. CASE u \in Deleted(t)
  <2>1. PICK s \in Slots : u = [t EXCEPT ![s] = NoRecord]
    BY <1>2 DEF Deleted
  <2>2. \A a \in Slots : u[a] # NoRecord => u[a] = t[a]
    BY <2>1 DEF Table
  <2>3. QED
    BY <2>2 DEF AddsNoDuplicate, Duplicates
<1>3. CASE u \in Created(t) \cup Updated(t)
  <2>1. PICK sr \in Slots \X Records :
            ~ Conflict(t, sr[2], sr[1]) /\ u = [t EXCEPT ![sr[1]] = sr[2]]
    BY <1>3 DEF Created, Updated
  <2>2. QED
    BY <2>1, <1>1
<1>4. QED
  BY <1>2, <1>3

(* Edits add up: no duplicate in either step is none in both.              *)
LEMMA NoDuplicateAdded ==
    ASSUME NEW t, NEW u, NEW v, AddsNoDuplicate(t, u), AddsNoDuplicate(u, v)
    PROVE  AddsNoDuplicate(t, v)
BY DEF AddsNoDuplicate

(* A mutation without a session, conflicts and missing rows included.      *)
LEMMA MutationsAddNoDuplicate ==
    ASSUME TypeOK, NEW c \in Clients, DirectMutation(c)
    PROVE  AddsNoDuplicate(store, store')
<1>1. CASE store' = store
  BY <1>1 DEF AddsNoDuplicate
<1>2. CASE store' \in Created(store) \cup Updated(store) \cup Deleted(store)
  BY <1>2, OutcomesAddNoDuplicate DEF TypeOK
<1>3. QED
  BY <1>1, <1>2 DEF DirectMutation

-----------------------------------------------------------------------------
(* Every value the adapter and the lock hold has its type.                 *)
THEOREM TypeCorrect == Spec => []TypeOK
<1>1. Init => TypeOK
  BY MaxCallsAssumption DEF Init, TypeOK, PC
<1>2. TypeOK /\ [Next]_vars => TypeOK'
  <2> SUFFICES ASSUME TypeOK, [Next]_vars
               PROVE  TypeOK'
    OBVIOUS
  <2> USE MaxCallsAssumption
  <2>1. ASSUME NEW c \in Clients, NEW state \in PC, TakePlace(c, state)
        PROVE  TypeOK'
    <3>1. /\ lastCall' = lastCall + 1
          /\ lastCall' \in 0 .. MaxCalls
      BY <2>1 DEF TypeOK, TakePlace
    <3>2. call' \in [Clients -> 0 .. lastCall']
      BY <2>1, <3>1 DEF TypeOK, TakePlace
    <3>3. resolved' \subseteq 0 .. lastCall'
      BY <2>1, <3>1 DEF TypeOK, TakePlace
    <3>4. pc' \in [Clients -> PC]
      BY <2>1 DEF TypeOK, TakePlace
    <3>5. QED
      BY <2>1, <3>1, <3>2, <3>3, <3>4 DEF TypeOK, TakePlace, sessionVars
  <2>2. ASSUME NEW c \in Clients, BeginTransaction(c)
        PROVE  TypeOK'
    BY <2>2 DEF TypeOK, BeginTransaction, PC
  <2>3. ASSUME NEW c \in Clients,
               SessionWrite(c, Created(txn[c])) \/ SessionWrite(c, Updated(txn[c]))
                    \/ SessionWrite(c, Deleted(txn[c]))
        PROVE  TypeOK'
    <3>1. PICK t \in Created(txn[c]) \cup Updated(txn[c]) \cup Deleted(txn[c]) :
            /\ txn' = [txn EXCEPT ![c] = t]
            /\ told' = [told EXCEPT ![c] = t]
      BY <2>3 DEF SessionWrite
    <3>2. t \in Table
      BY <3>1, OutcomesAreTables DEF TypeOK
    <3>3. QED
      BY <2>3, <3>1, <3>2 DEF TypeOK, SessionWrite, lockVars
  <2>4. ASSUME NEW c \in Clients, CommitTransaction(c)
        PROVE  TypeOK'
    BY <2>4 DEF TypeOK, CommitTransaction, PC
  <2>5. ASSUME NEW c \in Clients, AbortTransaction(c)
        PROVE  TypeOK'
    BY <2>5 DEF TypeOK, AbortTransaction, PC
  <2>6. ASSUME NEW c \in Clients, DirectMutation(c)
        PROVE  TypeOK'
    <3>1. store' \in Table
      BY <2>6, OutcomesAreTables DEF TypeOK, DirectMutation
    <3>2. QED
      BY <2>6, <3>1 DEF TypeOK, DirectMutation, sessionVars, PC
  <2>7. ASSUME NEW c \in Clients, Release(c)
        PROVE  TypeOK'
    BY <2>7 DEF TypeOK, Release, sessionVars, PC
  <2>8. CASE UNCHANGED vars
    BY <2>8 DEF TypeOK, vars, lockVars, sessionVars
  <2>9. QED
    BY <2>1, <2>2, <2>3, <2>4, <2>5, <2>6, <2>7, <2>8
       DEF Next, CallTransaction, CallMutation, SessionCreate, SessionUpdate,
           SessionDelete, Quiescent, PC
<1>3. QED
  BY <1>1, <1>2, PTL DEF Spec

-----------------------------------------------------------------------------
(* Two calls inside, or one inside that called after one still waiting,    *)
(* would put an unresolved promise among the resolved ones.                *)
LEMMA LockInvImpliesExclusion ==
    ASSUME TypeOK, LockInv
    PROVE  LockExclusion /\ ServedInOrder
<1>1. ASSUME NEW c \in Clients, NEW d \in Clients, Inside(c), pc[d] # "idle",
             call[d] < call[c]
      PROVE  FALSE
  <2>1. call[c] - 1 \in resolved /\ call[d] \in 0 .. (call[c] - 1)
    BY <1>1 DEF TypeOK, LockInv, Admitted
  <2>2. QED
    BY <2>1, <1>1 DEF LockInv
<1>2. ASSUME NEW c \in Clients, NEW d \in Clients, Inside(c), pc[d] # "idle"
      PROVE  c = d \/ call[c] < call[d]
  <2>1. call[c] \in Nat /\ call[d] \in Nat
    BY DEF TypeOK
  <2>2. CASE call[d] < call[c]
    BY <1>1, <1>2, <2>2
  <2>3. CASE call[d] = call[c]
    BY <1>2, <2>3 DEF LockInv, Inside
  <2>4. QED
    BY <2>1, <2>2, <2>3, <1>2
<1>3. LockExclusion
  <2> SUFFICES ASSUME NEW c \in Clients, NEW d \in Clients, Inside(c), Inside(d), c # d
               PROVE  FALSE
    BY DEF LockExclusion
  <2>1. call[c] < call[d] /\ call[d] < call[c]
    BY <1>2 DEF Inside
  <2>2. QED
    BY <2>1 DEF TypeOK
<1>4. ServedInOrder
  BY <1>2 DEF ServedInOrder, Inside, Waiting
<1>5. QED
  BY <1>3, <1>4

(* The promise chain keeps its shape.                                      *)
LEMMA LockInvInductive ==
    ASSUME TypeOK, LockInv, [Next]_vars
    PROVE  LockInv'
<1> USE MaxCallsAssumption
<1>1. ASSUME NEW c \in Clients, NEW state \in {"awaitTransaction", "awaitMutation"},
             TakePlace(c, state)
      PROVE  LockInv'
  <2>1. /\ lastCall \in Nat
        /\ call'[c] = lastCall + 1
        /\ \A d \in Clients : d # c => call'[d] = call[d] /\ pc'[d] = pc[d]
        /\ pc'[c] = state /\ resolved' = resolved
        /\ \A n \in resolved : n <= lastCall
        /\ \A d \in Clients : call[d] <= lastCall
    BY <1>1 DEF TypeOK, TakePlace
  <2>2. \A d \in Clients : pc'[d] # "idle" => call'[d] > 0 /\ call'[d] \notin resolved'
    BY <2>1 DEF LockInv, TypeOK
  <2>3. \A d, e \in Clients :
            pc'[d] # "idle" /\ pc'[e] # "idle" /\ call'[d] = call'[e] => d = e
    BY <2>1 DEF LockInv, TypeOK
  <2>4. \A d \in Clients : Inside(d)' => Admitted(d)'
    BY <2>1 DEF LockInv, Inside, Admitted
  <2>5. QED
    BY <2>1, <2>2, <2>3, <2>4 DEF LockInv
<1>2. ASSUME NEW c \in Clients, pc[c] # "idle",
             Inside(c) \/ Admitted(c),
             UNCHANGED <<lastCall, resolved, call>>,
             pc' = [pc EXCEPT ![c] = "working"] \/ pc' = [pc EXCEPT ![c] = "settled"]
      PROVE  LockInv'
  BY <1>2 DEF LockInv, TypeOK, Inside, Admitted
<1>3. ASSUME NEW c \in Clients, Release(c)
      PROVE  LockInv'
  <2>1. /\ call'= call /\ resolved' = resolved \cup {call[c]}
        /\ pc' = [pc EXCEPT ![c] = "idle"] /\ pc[c] = "settled"
        /\ call[c] \in Nat
    BY <1>3 DEF Release, TypeOK
  <2>2. \A n \in resolved' : \A m \in 0 .. n : m \in resolved'
    <3>1. call[c] - 1 \in resolved
      BY <2>1 DEF LockInv, Inside, Admitted
    <3>2. \A m \in 0 .. call[c] : m = call[c] \/ m \in 0 .. (call[c] - 1)
      BY <2>1
    <3>3. QED
      BY <2>1, <3>1, <3>2 DEF LockInv
  <2>3. \A d \in Clients : pc'[d] # "idle" => call'[d] > 0 /\ call'[d] \notin resolved'
    BY <2>1 DEF LockInv, TypeOK
  <2>4. QED
    BY <2>1, <2>2, <2>3 DEF LockInv, TypeOK, Inside, Admitted
<1>4. CASE UNCHANGED lockVars
  BY <1>4 DEF LockInv, lockVars, Inside, Admitted
<1>5. ASSUME NEW c \in Clients, BeginTransaction(c) \/ CommitTransaction(c)
                \/ AbortTransaction(c) \/ DirectMutation(c)
      PROVE  LockInv'
  BY <1>2, <1>5 DEF BeginTransaction, CommitTransaction, AbortTransaction,
                    DirectMutation, Inside
<1>6. QED
  BY <1>1, <1>3, <1>4, <1>5
     DEF Next, CallTransaction, CallMutation, SessionCreate, SessionUpdate,
         SessionDelete, SessionWrite, Quiescent, vars

LEMMA LockInvInit == Init => LockInv
BY DEF Init, LockInv, Inside

(* However many calls are queued, at most one runs inside the write lock.  *)
THEOREM MutualExclusion == Spec => []LockExclusion
<1>1. TypeOK /\ LockInv /\ [Next]_vars => LockInv'
  BY LockInvInductive
<1>2. TypeOK /\ LockInv => LockExclusion
  BY LockInvImpliesExclusion
<1>3. QED
  BY <1>1, <1>2, LockInvInit, TypeCorrect, PTL DEF Spec

(* Calls enter the write lock in the order in which they were made.        *)
THEOREM FirstComeFirstServed == Spec => []ServedInOrder
<1>1. TypeOK /\ LockInv /\ [Next]_vars => LockInv'
  BY LockInvInductive
<1>2. TypeOK /\ LockInv => ServedInOrder
  BY LockInvImpliesExclusion
<1>3. QED
  BY <1>1, <1>2, LockInvInit, TypeCorrect, PTL DEF Spec

-----------------------------------------------------------------------------
(* A step outside the lock's two sections leaves the data alone; a client  *)
(* that commits or mutates directly is alone inside, so no other session   *)
(* is live and nobody's base goes stale.                                   *)
LEMMA DataInvInductive ==
    ASSUME TypeOK, LockExclusion, LockExclusion', DataInv, [Next]_vars
    PROVE  DataInv'
<1> USE DEF DataInv, NoLostUpdate, UniqueHolds
<1>1. ASSUME NEW c \in Clients, NEW state \in {"awaitTransaction", "awaitMutation"},
             TakePlace(c, state)
      PROVE  DataInv'
  BY <1>1 DEF TakePlace, sessionVars, TypeOK
<1>2. ASSUME NEW c \in Clients, BeginTransaction(c)
      PROVE  DataInv'
  BY <1>2 DEF BeginTransaction, TypeOK
<1>3. ASSUME NEW c \in Clients, NEW t \in Table, c \in active, AddsNoDuplicate(initial, t),
             txn' = [txn EXCEPT ![c] = t], told' = [told EXCEPT ![c] = t],
             UNCHANGED <<initial, store, lockVars, active, base, landed>>
      PROVE  DataInv'
  BY <1>3 DEF TypeOK, lockVars
<1>4. ASSUME NEW c \in Clients,
             SessionWrite(c, Created(txn[c])) \/ SessionWrite(c, Updated(txn[c]))
                \/ SessionWrite(c, Deleted(txn[c]))
      PROVE  DataInv'
  <2>1. PICK t \in Created(txn[c]) \cup Updated(txn[c]) \cup Deleted(txn[c]) :
            /\ txn' = [txn EXCEPT ![c] = t]
            /\ told' = [told EXCEPT ![c] = t]
            /\ c \in active
            /\ UNCHANGED <<initial, store, lockVars, active, base, landed>>
    BY <1>4 DEF SessionWrite, SessionActive
  <2>2. txn[c] \in Table /\ AddsNoDuplicate(initial, txn[c])
    BY <2>1 DEF TypeOK
  <2>3. t \in Table /\ AddsNoDuplicate(txn[c], t)
    BY <2>1, <2>2, OutcomesAreTables, OutcomesAddNoDuplicate
  <2>4. AddsNoDuplicate(initial, t)
    BY <2>2, <2>3, NoDuplicateAdded
  <2>5. QED
    BY <1>3, <2>1, <2>3, <2>4
<1>5. ASSUME NEW c \in Clients, CommitTransaction(c)
      PROVE  DataInv'
  <2>1. active = {c} /\ active' = {}
    BY <1>5 DEF CommitTransaction, LockExclusion, Inside, TypeOK
  <2>2. \A d \in Clients : ~ (pc'[d] = "working")
    BY <1>5, <2>1 DEF CommitTransaction, TypeOK
  <2>3. QED
    BY <1>5, <2>1, <2>2 DEF CommitTransaction, TypeOK
<1>6. ASSUME NEW c \in Clients, AbortTransaction(c)
      PROVE  DataInv'
  BY <1>6 DEF AbortTransaction, TypeOK
<1>7. ASSUME NEW c \in Clients, DirectMutation(c)
      PROVE  DataInv'
  <2>1. pc'[c] = "settled"
    BY <1>7 DEF DirectMutation, TypeOK
  <2>2. active = {} /\ active' = {}
    <3>1. ASSUME NEW d \in active
          PROVE  FALSE
      <4>1. d # c /\ pc[d] = "working" /\ pc'[d] = pc[d]
        BY <1>7, <3>1 DEF DirectMutation, TypeOK
      <4>2. QED
        BY <2>1, <4>1, <3>1 DEF LockExclusion, Inside, TypeOK
    <3>2. QED
      BY <3>1, <1>7 DEF DirectMutation, sessionVars
  <2>3. AddsNoDuplicate(store, store')
    BY <1>7, MutationsAddNoDuplicate
  <2>4. initial' = initial
    BY <1>7 DEF DirectMutation
  <2>5. AddsNoDuplicate(initial, store')
    BY <2>3, NoDuplicateAdded
  <2>6. QED
    BY <1>7, <2>2, <2>4, <2>5 DEF DirectMutation, sessionVars, TypeOK
<1>8. ASSUME NEW c \in Clients, Release(c)
      PROVE  DataInv'
  BY <1>8 DEF Release, sessionVars, TypeOK
<1>9. CASE UNCHANGED vars
  BY <1>9 DEF vars, lockVars, sessionVars
<1>10. QED
  BY <1>1, <1>2, <1>4, <1>5, <1>6, <1>7, <1>8, <1>9
     DEF Next, CallTransaction, CallMutation, SessionCreate, SessionUpdate,
         SessionDelete, Quiescent

LEMMA DataInvInit == Init => DataInv
BY DEF Init, DataInv, NoLostUpdate, UniqueHolds, AddsNoDuplicate

LEMMA DataInvHolds == Spec => []DataInv
<1>1. TypeOK /\ LockExclusion /\ LockExclusion' /\ DataInv /\ [Next]_vars => DataInv'
  BY DataInvInductive
<1>2. QED
  BY <1>1, DataInvInit, TypeCorrect, MutualExclusion, PTL DEF Spec

(* Neither the committed table nor a copy that a live transaction works on *)
(* ever gets a duplicate that the adapter was not given at the start.      *)
THEOREM Uniqueness == Spec => []UniqueHolds
<1>1. DataInv => UniqueHolds
  BY DEF DataInv
<1>2. QED
  BY <1>1, DataInvHolds, PTL

(* An adapter that starts without duplicates never has any.                *)
NoDuplicate(t) ==
    \A fields \in Unique, r, s \in Slots : ~ Duplicates(t, fields, r, s)

THEOREM NoDuplicatesEver ==
    Spec => [](NoDuplicate(initial) =>
                    /\ NoDuplicate(store)
                    /\ \A c \in active : NoDuplicate(txn[c]))
<1>1. UniqueHolds => (NoDuplicate(initial) =>
                        /\ NoDuplicate(store)
                        /\ \A c \in active : NoDuplicate(txn[c]))
  BY DEF UniqueHolds, AddsNoDuplicate, NoDuplicate
<1>2. QED
  BY <1>1, Uniqueness, PTL

(* No commit replaces a table that changed since its transaction began.    *)
THEOREM LostUpdateFreedom == Spec => []NoLostUpdate
<1>1. DataInv => NoLostUpdate
  BY DEF DataInv
<1>2. QED
  BY <1>1, DataInvHolds, PTL

(* Whatever a session acknowledged is in what its transaction committed.   *)
THEOREM AcknowledgementsLand == Spec => []AcknowledgedIsDecided
<1>1. DataInv => AcknowledgedIsDecided
  BY DEF DataInv, AcknowledgedIsDecided
<1>2. QED
  BY <1>1, DataInvHolds, PTL

(* While a transaction is open, the committed table changes in no other    *)
(* way than by that transaction's commit, to all it was acknowledged.      *)
THEOREM WholeTransactions == Spec => OnlyWholeTransactionsLand
<1>1. ASSUME TypeOK, LockExclusion, DataInv, LockExclusion', TypeOK', [Next]_vars,
             NEW c \in Clients, c \in active, store' # store
      PROVE  store' = told[c] /\ landed'[c] = told[c] /\ c \notin active'
  <2>1. pc[c] = "working"
    BY <1>1 DEF DataInv
  <2>2. ASSUME NEW d \in Clients, CommitTransaction(d)
        PROVE  store' = told[c] /\ landed'[c] = told[c] /\ c \notin active'
    <3>1. c = d
      BY <1>1, <2>1, <2>2 DEF CommitTransaction, LockExclusion, Inside
    <3>2. QED
      BY <1>1, <2>2, <3>1 DEF CommitTransaction, DataInv, TypeOK
  <2>3. ASSUME NEW d \in Clients, DirectMutation(d)
        PROVE  FALSE
    <3>1. pc[d] = "awaitMutation" /\ pc' = [pc EXCEPT ![d] = "settled"]
      BY <2>3 DEF DirectMutation
    <3>2. c # d /\ pc'[c] = "working" /\ pc'[d] = "settled"
      BY <2>1, <3>1, <1>1 DEF TypeOK
    <3>3. QED
      BY <3>2, <1>1 DEF LockExclusion, Inside
  <2>4. QED
    BY <1>1, <2>2, <2>3
       DEF Next, CallTransaction, CallMutation, TakePlace, BeginTransaction,
           SessionCreate, SessionUpdate, SessionDelete, SessionWrite,
           AbortTransaction, Release, Quiescent, vars
<1>2. TypeOK /\ LockExclusion /\ DataInv /\ LockExclusion' /\ TypeOK' /\ [Next]_vars
        => [\A c \in Clients : (c \in active /\ store' # store)
                => /\ store' = told[c]
                   /\ landed'[c] = told[c]
                   /\ c \notin active']_vars
  BY <1>1
<1>3. QED
  BY <1>2, TypeCorrect, MutualExclusion, DataInvHolds, PTL
     DEF Spec, OnlyWholeTransactionsLand

-----------------------------------------------------------------------------
(* The refinement: each step of the adapter is a step of SerialStore, or   *)
(* one it does not see.                                                    *)
LEMMA OwnerIsTheActiveClient ==
    ASSUME TypeOK, LockExclusion, DataInv, NEW c \in active
    PROVE  active = {c} /\ Owner = c /\ Work = txn[c]
<1>1. active = {c}
  BY DEF TypeOK, LockExclusion, DataInv, Inside
<1>2. Owner = c
  BY <1>1 DEF Owner, TypeOK
<1>3. QED
  BY <1>1, <1>2 DEF Work

LEMMA StepsAreSerial ==
    ASSUME TypeOK, LockExclusion, DataInv, TypeOK', LockExclusion', DataInv',
           [Next]_vars
    PROVE  [Serial!Next]_(Serial!storeVars)
<1> USE DEF Serial!storeVars
<1>1. ASSUME UNCHANGED <<store, txn, active>>
      PROVE  UNCHANGED Serial!storeVars
  BY <1>1 DEF Owner, Work
<1>2. ASSUME NEW c \in Clients, BeginTransaction(c)
      PROVE  Serial!Begin(c)
  <2>1. active = {}
    <3>1. ASSUME NEW d \in active
          PROVE  FALSE
      <4>1. pc[c] = "awaitTransaction" /\ pc[d] = "working"
        BY <1>2, <3>1 DEF BeginTransaction, DataInv, TypeOK
      <4>2. pc'[c] = "working" /\ pc'[d] = "working" /\ c # d
        BY <1>2, <4>1, <3>1 DEF BeginTransaction, TypeOK
      <4>3. QED
        BY <4>2, <3>1 DEF LockExclusion, Inside, TypeOK
    <3>2. QED
      BY <3>1
  <2>2. c \in active' /\ txn'[c] = store /\ store' = store
    BY <1>2 DEF BeginTransaction, TypeOK
  <2>3. Owner' = c /\ Work' = store
    <3>1. active' = {c}
      BY <1>2, <2>1 DEF BeginTransaction
    <3>2. Owner' = c
      BY <3>1 DEF Owner
    <3>3. QED
      BY <3>1, <3>2, <2>2 DEF Work
  <2>4. QED
    BY <2>1, <2>2, <2>3 DEF Serial!Begin, Owner, Work
<1>3. ASSUME NEW c \in Clients, SessionCreate(c) \/ SessionUpdate(c) \/ SessionDelete(c)
      PROVE  Serial!Next
  <2>1. /\ c \in active /\ active' = active /\ store' = store
        /\ txn' = [txn EXCEPT ![c] = txn'[c]]
    BY <1>3 DEF SessionCreate, SessionUpdate, SessionDelete, SessionWrite,
                SessionActive, TypeOK
  <2>2. Owner = c /\ active = {c}
    BY <2>1, OwnerIsTheActiveClient
  <2>3. Owner' = c /\ Work' = txn'[c]
    BY <2>1, <2>2 DEF Owner, Work
  <2>4. Work = txn[c]
    BY <2>1, OwnerIsTheActiveClient
  <2>5. txn[c] \in Table /\ txn'[c] \in Created(txn[c]) \cup Updated(txn[c])
                                            \cup Deleted(txn[c])
    BY <1>3, <2>1 DEF SessionCreate, SessionUpdate, SessionDelete, SessionWrite,
                      TypeOK
  <2>6. <<Work, Work'>> \in Edits
    BY <2>3, <2>4, <2>5, OutcomesAreTables, OutcomesAddNoDuplicate DEF Edits
  <2>7. Serial!Write(c)
    BY <2>1, <2>2, <2>3, <2>6 DEF Serial!Write
  <2>8. QED
    BY <2>7 DEF Serial!Next
<1>4. ASSUME NEW c \in Clients, CommitTransaction(c)
      PROVE  Serial!Commit(c)
  <2>1. c \in active /\ store' = txn[c] /\ active' = active \ {c}
    BY <1>4 DEF CommitTransaction, DataInv
  <2>2. active = {c} /\ Owner = c /\ Work = txn[c]
    BY <2>1, OwnerIsTheActiveClient
  <2>3. QED
    BY <2>1, <2>2 DEF Serial!Commit, Owner, Work
<1>5. ASSUME NEW c \in Clients, AbortTransaction(c)
      PROVE  Serial!Abort(c)
  <2>1. c \in active /\ store' = store /\ active' = active \ {c}
    BY <1>5 DEF AbortTransaction, DataInv
  <2>2. active = {c} /\ Owner = c
    BY <2>1, OwnerIsTheActiveClient
  <2>3. QED
    BY <2>1, <2>2 DEF Serial!Abort, Owner, Work
<1>6. ASSUME NEW c \in Clients, DirectMutation(c)
      PROVE  Serial!Next
  <2>1. active = {}
    <3>1. ASSUME NEW d \in active
          PROVE  FALSE
      <4>1. pc[c] = "awaitMutation" /\ pc[d] = "working"
        BY <1>6, <3>1 DEF DirectMutation, DataInv, TypeOK
      <4>2. pc'[c] = "settled" /\ pc'[d] = "working" /\ c # d
        BY <1>6, <4>1, <3>1 DEF DirectMutation, TypeOK
      <4>3. QED
        BY <4>2, <3>1 DEF LockExclusion, Inside, TypeOK
    <3>2. QED
      BY <3>1
  <2>2. active' = {}
    BY <1>6, <2>1 DEF DirectMutation, sessionVars
  <2>3. <<store, store'>> \in Edits
    BY <1>6, MutationsAddNoDuplicate DEF TypeOK, Edits
  <2>4. Serial!Direct
    BY <2>1, <2>2, <2>3 DEF Serial!Direct, Owner, Work
  <2>5. QED
    BY <2>4 DEF Serial!Next
<1>7. ASSUME NEW c \in Clients, CallTransaction(c) \/ CallMutation(c) \/ Release(c)
      PROVE  UNCHANGED Serial!storeVars
  BY <1>1, <1>7 DEF CallTransaction, CallMutation, TakePlace, Release, sessionVars
<1>8. CASE UNCHANGED vars
  BY <1>1, <1>8 DEF vars, sessionVars
<1>9. QED
  BY <1>2, <1>3, <1>4, <1>5, <1>6, <1>7, <1>8 DEF Next, Serial!Next, Quiescent

(* The memory adapter implements the serial store: its transactions take   *)
(* effect one after another, each as a whole or not at all.                *)
THEOREM Refinement == Spec => ImplementsSerialStore
<1>1. Init => Serial!Init
  BY DEF Init, Serial!Init, Owner, Work
<1>2. TypeOK /\ LockExclusion /\ DataInv /\ TypeOK' /\ LockExclusion' /\ DataInv'
        /\ [Next]_vars => [Serial!Next]_(Serial!storeVars)
  BY StepsAreSerial
<1>3. QED
  BY <1>1, <1>2, TypeCorrect, MutualExclusion, DataInvHolds, PTL
     DEF Spec, Serial!Spec, ImplementsSerialStore
=============================================================================
