--------------------------- MODULE MemoryAdapter ---------------------------
(***************************************************************************)
(* MemoryCrudAdapter and MemoryCrudStore of @nestm/crud-memory.            *)
(*                                                                         *)
(* Every call that writes outside a session, and every transaction, goes   *)
(* through #withWriteLock: a chain of promises in which the n-th call      *)
(* awaits the promise of call n-1 and resolves its own when it is over.    *)
(* A transaction copies the committed records, hands `work` a session      *)
(* that names the copy, and replaces the committed records by the copy     *)
(* when `work` resolves.  A session is good for as long as the copy is in  *)
(* #activeTransactions; code that keeps one for longer (a call nobody      *)
(* awaited, a session stored in a closure) must be turned away.            *)
(*                                                                         *)
(* Abstractions.  The array of records is a function from slots: its order *)
(* is dropped, so a mutation picks any matching record where the code      *)
(* picks the first.  createRecord and updateRecord are the application's   *)
(* and return any record; predicates select any record.  A joined          *)
(* transaction (one called with a live session) runs `work` on the same    *)
(* copy and settles without a step of its own.  Reads change nothing: a    *)
(* read with a session sees txn[c], one without sees store.                *)
(***************************************************************************)
EXTENDS Naturals, FiniteSets

CONSTANTS
    Clients,    \* chains of asynchronous calls on one adapter
    Nobody,     \* no client (the refinement mapping's owner)
    Slots,      \* array positions; bounds the records of a table
    Fields,     \* logical fields of a record
    Null,       \* an absent field value
    Records,    \* what createRecord and updateRecord may return
    Unique,     \* the `unique` option: a set of field tuples
    NoRecord,   \* an empty slot
    NoTable,    \* no committed table yet
    MaxCalls    \* bound on the calls that take the write lock

ASSUME UniqueAssumption == Unique \subseteq ((SUBSET Fields) \ {{}})
ASSUME NoRecordAssumption == NoRecord \notin Records
ASSUME NobodyAssumption == Nobody \notin Clients
ASSUME MaxCallsAssumption == MaxCalls \in Nat

VARIABLES
    store,      \* MemoryCrudStore's committed records
    lastCall,   \* number of promises appended to #writeTail
    resolved,   \* promises of the chain that are resolved; 0 is the first
    call,       \* call[c]: the number of c's promise in the chain
    pc,         \* where each client stands in its call
    txn,        \* txn[c]: `records` of c's latest MemoryTransaction
    active,     \* clients whose transaction is in #activeTransactions
    initial,    \* history: the records the adapter was given at the start
    base,       \* history: the committed table txn[c] was copied from
    told,       \* history: the table c's acknowledged calls amount to
    landed      \* history: the table c's latest transaction resolved with

lockVars == <<lastCall, resolved, call, pc>>
sessionVars == <<txn, active, base, told, landed>>
vars == <<initial, store, lockVars, sessionVars>>

Table == [Slots -> Records \cup {NoRecord}]

PC == {"idle", "awaitTransaction", "awaitMutation", "working", "settled"}

-----------------------------------------------------------------------------
(* #assertUnique: a tuple with a null field is distinct from every other.  *)

Complete(r, fields) == \A f \in fields : r[f] # Null

Clash(r, s, fields) ==
    /\ Complete(r, fields)
    /\ Complete(s, fields)
    /\ \A f \in fields : r[f] = s[f]

Conflict(t, candidate, ignored) ==
    \E fields \in Unique, s \in Slots \ {ignored} :
        t[s] # NoRecord /\ Clash(t[s], candidate, fields)

Duplicates(t, fields, r, s) ==
    r # s /\ t[r] # NoRecord /\ t[s] # NoRecord /\ Clash(t[r], t[s], fields)

(* The tables #createIn, #updateIn and #deleteIn may leave behind, given   *)
(* the table they start from.  A call that conflicts or finds no match     *)
(* leaves the table alone.                                                 *)

Created(t) ==
    {[t EXCEPT ![sr[1]] = sr[2]] :
        sr \in {x \in Slots \X Records :
                    t[x[1]] = NoRecord /\ ~ Conflict(t, x[2], x[1])}}

\* Seeded fault: the candidate of an update is not checked.
UpdatedUnchecked(t) ==
    {[t EXCEPT ![sr[1]] = sr[2]] :
        sr \in {x \in Slots \X Records : t[x[1]] # NoRecord}}

Updated(t) ==
    {[t EXCEPT ![sr[1]] = sr[2]] :
        sr \in {x \in Slots \X Records :
                    t[x[1]] # NoRecord /\ ~ Conflict(t, x[2], x[1])}}

Deleted(t) ==
    {[t EXCEPT ![s] = NoRecord] : s \in {x \in Slots : t[x] # NoRecord}}

-----------------------------------------------------------------------------
\* The constructor takes initialRecords, or a store with records in it, as
\* they are: #assertUnique is asked of what is written, not of these.
Init ==
    /\ initial \in Table
    /\ store = initial
    /\ lastCall = 0
    /\ resolved = {0}
    /\ call = [c \in Clients |-> 0]
    /\ pc = [c \in Clients |-> "idle"]
    /\ txn = [c \in Clients |-> store]
    /\ active = {}
    /\ base = [c \in Clients |-> store]
    /\ told = [c \in Clients |-> store]
    /\ landed = [c \in Clients |-> NoTable]

\* The synchronous half of #withWriteLock: remember the promise at the tail,
\* append one's own.
TakePlace(c, state) ==
    /\ pc[c] = "idle"
    /\ lastCall < MaxCalls
    /\ lastCall' = lastCall + 1
    /\ call' = [call EXCEPT ![c] = lastCall + 1]
    /\ pc' = [pc EXCEPT ![c] = state]
    /\ UNCHANGED <<initial, store, resolved, sessionVars>>

CallTransaction(c) == TakePlace(c, "awaitTransaction")

CallMutation(c) == TakePlace(c, "awaitMutation")

\* Seeded fault: the call does not wait for its predecessor.
AdmittedAtOnce(c) == TRUE

\* Seeded fault: a flag instead of a chain of promises.
AdmittedWhenFree(c) ==
    \A d \in Clients : pc[d] \notin {"working", "settled"}

\* `await previous` has returned.
Admitted(c) == call[c] - 1 \in resolved

\* transaction(): copy the committed records, register the copy, call work.
BeginTransaction(c) ==
    /\ pc[c] = "awaitTransaction"
    /\ Admitted(c)
    /\ pc' = [pc EXCEPT ![c] = "working"]
    /\ txn' = [txn EXCEPT ![c] = store]
    /\ active' = active \cup {c}
    /\ base' = [base EXCEPT ![c] = store]
    /\ told' = [told EXCEPT ![c] = store]
    /\ landed' = [landed EXCEPT ![c] = NoTable]
    /\ UNCHANGED <<initial, store, lastCall, resolved, call>>

\* Seeded fault: #transactionFrom forgets to look into #activeTransactions.
SessionEverOpened(c) == c \in active \/ landed[c] # NoTable

\* #transactionFrom accepts the session of c's latest transaction.
SessionActive(c) == c \in active

\* Seeded fault: the transaction works on the committed records themselves.
SessionWriteThrough(c, outcomes) ==
    /\ c \in active
    /\ \E t \in outcomes :
        /\ txn' = [txn EXCEPT ![c] = t]
        /\ told' = [told EXCEPT ![c] = t]
        /\ store' = t
    /\ UNCHANGED <<initial, lockVars, active, base, landed>>

\* A create, update or delete with that session, whoever calls it: it edits
\* the copy in place and is acknowledged.
SessionWrite(c, outcomes) ==
    /\ SessionActive(c)
    /\ \E t \in outcomes :
        /\ txn' = [txn EXCEPT ![c] = t]
        /\ told' = [told EXCEPT ![c] = t]
    /\ UNCHANGED <<initial, store, lockVars, active, base, landed>>

SessionCreate(c) == SessionWrite(c, Created(txn[c]))

SessionUpdate(c) == SessionWrite(c, Updated(txn[c]))

SessionDelete(c) == SessionWrite(c, Deleted(txn[c]))

\* work resolved: replace the committed records and retire the session.
\* Both happen before any other code runs.
CommitTransaction(c) ==
    /\ pc[c] = "working"
    /\ store' = txn[c]
    /\ landed' = [landed EXCEPT ![c] = txn[c]]
    /\ active' = active \ {c}
    /\ pc' = [pc EXCEPT ![c] = "settled"]
    /\ UNCHANGED <<initial, lastCall, resolved, call, txn, base, told>>

\* Seeded fault: the replacement is moved into the finally block.
AbortReplacing(c) ==
    /\ pc[c] = "working"
    /\ store' = txn[c]
    /\ active' = active \ {c}
    /\ pc' = [pc EXCEPT ![c] = "settled"]
    /\ UNCHANGED <<initial, lastCall, resolved, call, txn, base, told, landed>>

\* work rejected: the finally block retires the session, nothing is replaced.
AbortTransaction(c) ==
    /\ pc[c] = "working"
    /\ active' = active \ {c}
    /\ pc' = [pc EXCEPT ![c] = "settled"]
    /\ UNCHANGED <<initial, store, lastCall, resolved, call, txn, base, told, landed>>

\* Seeded fault: a call without a session does not take the write lock.
DirectMutationUnlocked(c) ==
    /\ pc[c] = "awaitMutation"
    /\ store' \in Created(store) \cup Updated(store) \cup Deleted(store)
                    \cup {store}
    /\ pc' = [pc EXCEPT ![c] = "settled"]
    /\ UNCHANGED <<initial, lastCall, resolved, call, sessionVars>>

\* create, update or delete without a session: copy, edit and replace in one
\* uninterrupted turn.  {store} is the conflict and the missing row.
DirectMutation(c) ==
    /\ pc[c] = "awaitMutation"
    /\ Admitted(c)
    /\ store' \in Created(store) \cup Updated(store) \cup Deleted(store)
                    \cup {store}
    /\ pc' = [pc EXCEPT ![c] = "settled"]
    /\ UNCHANGED <<initial, lastCall, resolved, call, sessionVars>>

\* Seeded fault: a call resolves the promise after its own.
ReleaseNext(c) ==
    /\ pc[c] = "settled"
    /\ resolved' = resolved \cup {call[c] + 1}
    /\ pc' = [pc EXCEPT ![c] = "idle"]
    /\ UNCHANGED <<initial, store, lastCall, call, sessionVars>>

\* Seeded fault: no finally block, the promise of a call stays pending.
ReleaseForgotten(c) ==
    /\ pc[c] = "settled"
    /\ pc' = [pc EXCEPT ![c] = "idle"]
    /\ UNCHANGED <<initial, store, lastCall, resolved, call, sessionVars>>

\* The finally block of #withWriteLock.
Release(c) ==
    /\ pc[c] = "settled"
    /\ resolved' = resolved \cup {call[c]}
    /\ pc' = [pc EXCEPT ![c] = "idle"]
    /\ UNCHANGED <<initial, store, lastCall, call, sessionVars>>

\* All MaxCalls calls are over: nothing is left to do.
Quiescent ==
    /\ lastCall = MaxCalls
    /\ \A c \in Clients : pc[c] = "idle"
    /\ UNCHANGED vars

Next ==
    \/ \E c \in Clients :
        \/ CallTransaction(c)
        \/ CallMutation(c)
        \/ BeginTransaction(c)
        \/ SessionCreate(c)
        \/ SessionUpdate(c)
        \/ SessionDelete(c)
        \/ CommitTransaction(c)
        \/ AbortTransaction(c)
        \/ DirectMutation(c)
        \/ Release(c)
    \/ Quiescent

Spec == Init /\ [][Next]_vars

\* A resolved promise resumes whoever awaits it, and the work a client hands
\* to transaction() settles.  Nobody is obliged to make another call.
Fairness ==
    \A c \in Clients :
        /\ WF_vars(BeginTransaction(c))
        /\ WF_vars(CommitTransaction(c) \/ AbortTransaction(c))
        /\ WF_vars(DirectMutation(c))
        /\ WF_vars(Release(c))

FairSpec == Spec /\ Fairness

-----------------------------------------------------------------------------
TypeOK ==
    /\ initial \in Table
    /\ store \in Table
    /\ lastCall \in 0 .. MaxCalls
    /\ resolved \subseteq 0 .. lastCall
    /\ call \in [Clients -> 0 .. lastCall]
    /\ pc \in [Clients -> PC]
    /\ txn \in [Clients -> Table]
    /\ active \subseteq Clients
    /\ base \in [Clients -> Table]
    /\ told \in [Clients -> Table]
    /\ landed \in [Clients -> Table \cup {NoTable}]

Inside(c) == pc[c] \in {"working", "settled"}
Waiting(c) == pc[c] \in {"awaitTransaction", "awaitMutation"}

(* Only one call at a time is inside #withWriteLock, however many wait: a  *)
(* promise chain is a mutex only while every link waits for the one before *)
(* it and none is resolved early or twice.                                 *)
LockExclusion ==
    \A c, d \in Clients : Inside(c) /\ Inside(d) => c = d

(* Nobody overtakes: whoever is inside called before everyone who waits.   *)
ServedInOrder ==
    \A c, d \in Clients : Inside(c) /\ Waiting(d) => call[c] < call[d]

(* Two records with the same `unique` tuple, in the committed table or in  *)
(* a copy a transaction is working on, are both among the records that the *)
(* adapter was given at the start: no mutation and no commit brings in a   *)
(* duplicate that #assertUnique looked for in another table.  An adapter   *)
(* that starts without duplicates never has any.                           *)
AddsNoDuplicate(t, u) ==
    \A fields \in Unique, r, s \in Slots :
        Duplicates(u, fields, r, s) =>
            Duplicates(t, fields, r, s) /\ u[r] = t[r] /\ u[s] = t[s]

UniqueHolds ==
    /\ AddsNoDuplicate(initial, store)
    /\ \A c \in active : AddsNoDuplicate(initial, txn[c])

(* The table a transaction started from is still the committed one for as  *)
(* long as it works: replacing the whole table loses nobody's update.      *)
NoLostUpdate == \A c \in active : base[c] = store

(* Every call a session acknowledged is in what its transaction committed: *)
(* none is accepted after the commit, when it could land nowhere.          *)
AcknowledgedIsDecided ==
    \A c \in Clients : landed[c] # NoTable => told[c] = landed[c]

(* An aborted or still open transaction has put nothing into the committed *)
(* table: the copy-on-write promise of the package's README.  While one is *)
(* open the table changes only when its transaction() resolves, to all it  *)
(* acknowledged.                                                           *)
OnlyWholeTransactionsLand ==
    [][\A c \in Clients :
        (c \in active /\ store' # store) =>
            /\ store' = told[c]
            /\ landed'[c] = told[c]
            /\ c \notin active']_vars

(* Whoever waits for the lock gets it, if the work of others settles.      *)
WaitersAreServed == \A c \in Clients : Waiting(c) ~> ~ Waiting(c)

(* The adapter behaves as if its transactions ran one after another, with  *)
(* no lock, session or promise in sight.                                   *)
Owner == IF active = {} THEN Nobody ELSE CHOOSE c \in Clients : c \in active
Work == IF active = {} THEN store ELSE txn[Owner]

Edits == {tu \in Table \X Table : AddsNoDuplicate(tu[1], tu[2])}

Serial == INSTANCE SerialStore
    WITH db <- store, owner <- Owner, work <- Work, Tables <- Table

ImplementsSerialStore == Serial!Spec
=============================================================================
