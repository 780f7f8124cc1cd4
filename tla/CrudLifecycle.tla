--------------------------- MODULE CrudLifecycle ---------------------------
(***************************************************************************)
(* The mutations of CrudService (create, update, upsert, delete, restore), *)
(* run by concurrent requests over a transactional adapter.                *)
(*                                                                         *)
(* A request goes through the phases of the code: the adapter opens a      *)
(* transaction, scopes are resolved, update, delete and restore read the   *)
(* prior row, before hooks and validators run one after another, the       *)
(* adapter call acts, after hooks run, the response is mapped and the      *)
(* event for afterCommit is remembered, the adapter commits, and then,     *)
(* outside the transaction, the afterCommit hooks are told in order.       *)
(* Anything before the commit may throw.                                   *)
(*                                                                         *)
(* The adapter is one of three: "serial" (the memory adapter, see          *)
(* MemoryAdapter), or a database at READ COMMITTED or REPEATABLE READ,     *)
(* where a statement that writes waits for the row's lock.  Validators     *)
(* count as before hooks, projections and mappings as part of the phase    *)
(* they can fail in.  A hook may write through the session to a table of   *)
(* its own; `audit` holds the requests that have an entry there.           *)
(***************************************************************************)
EXTENDS CrudRows, Naturals, FiniteSets

CONSTANTS
    HookCount,      \* hooks (and validators) of the resource
    Untouched,      \* the transaction has not written the row
    NoEvent,        \* the code's `committed === undefined`
    NoChange,       \* the request has changed nothing
    Isolations,     \* the adapters to consider
    SoftDelete,     \* the resource declares softDelete
    IgnoreMissing   \* operations.delete.missing is "ignore"

ASSUME HookCountAssumption == HookCount \in Nat \ {0}
ASSUME FlagsAssumption == SoftDelete \in BOOLEAN /\ IgnoreMissing \in BOOLEAN
ASSUME IsolationAssumption ==
    Isolations \subseteq {"serial", "readCommitted", "repeatableRead"}

VARIABLES
    isolation,  \* the adapter in use
    rows,       \* committed rows
    audit,      \* committed entries of the hooks' table
    request,    \* request[r]: what r asks for
    phase,      \* phase[r]: where r stands
    hook,       \* hook[r]: hooks of the current kind that have run
    snapshot,   \* snapshot[r]: the row when r's REPEATABLE READ began
    own,        \* own[r]: r's uncommitted row, whose lock r holds
    ownAudit,   \* ownAudit[r]: r has an uncommitted audit entry
    prior,      \* prior[r]: the code's `prior`
    committed,  \* committed[r]: the code's `committed`
    answer,     \* answer[r]: what the caller gets
    delivered,  \* delivered[r]: afterCommit hooks told
    change      \* history: the row before and after r's commit

txnVars == <<snapshot, own, ownAudit, prior, committed>>
vars == <<isolation, rows, audit, request, phase, hook, txnVars, answer,
          delivered, change>>

Event == [prior : Row \cup {NoRow}, response : Row \cup {NoRow}]
Change == [before : Row \cup {NoRow}, after : Row \cup {NoRow}]

ASSUME PlaceholderAssumption ==
    /\ Untouched \notin Row \cup {NoRow}
    /\ NoEvent \notin Event
    /\ NoChange \notin Change

Phases == {"idle", "called", "scopes", "prior", "before", "after", "commit",
           "emit", "done"}
Open == {"scopes", "prior", "before", "after", "commit"}

WithPrior == {"update", "delete", "restore"}

Init ==
    /\ isolation \in Isolations
    /\ rows \in [Ids -> [tenant : Owners, deleted : {FALSE, SoftDelete},
                         by : {Init0}] \cup {NoRow}]
    /\ audit = {}
    /\ request \in [Requests -> Request]
    /\ isolation = "serial" => \A r \in Requests : request[r].op # "upsert"
    /\ phase = [r \in Requests |-> "idle"]
    /\ hook = [r \in Requests |-> 0]
    /\ snapshot = [r \in Requests |-> NoRow]
    /\ own = [r \in Requests |-> Untouched]
    /\ ownAudit = [r \in Requests |-> FALSE]
    /\ prior = [r \in Requests |-> NoRow]
    /\ committed = [r \in Requests |-> NoEvent]
    /\ answer = [r \in Requests |-> "pending"]
    /\ delivered = [r \in Requests |-> 0]
    /\ change = [r \in Requests |-> NoChange]

-----------------------------------------------------------------------------
Committed(r) == rows[request[r].id]

\* The row as a reading statement of r's transaction sees it.
Seen(r) ==
    IF isolation = "repeatableRead" THEN snapshot[r] ELSE Committed(r)

Locked(r) ==
    \E q \in Requests \ {r} :
        own[q] # Untouched /\ request[q].id = request[r].id

\* Seeded fault: the scopes' predicate is left out.
SelectsUnscoped(r, row) ==
    row # NoRow /\ row.deleted = (request[r].op = "restore")

\* Seeded fault: normalRowsPredicate is left out.
SelectsDeletedToo(r, row) ==
    row # NoRow /\ row.tenant = request[r].tenant

\* The predicate of r's adapter calls.
Selects(r, row) == Matches(request[r], row)

Advance(r, p) ==
    /\ phase' = [phase EXCEPT ![r] = p]
    /\ UNCHANGED <<isolation, request, delivered>>

\* The answer runAdapter gives for what was thrown inside it.
Status(error) ==
    CASE error = "HttpException" -> "http"
      [] error = "conflict" -> "409"
      [] error = "constraint" -> "400"
      [] OTHER -> "500"

Errors == {"HttpException", "conflict", "constraint", "unknown"}

\* Seeded fault: a hook's write bypassed the session and survives the rollback.
FailKeepingAudit(r, status) ==
    /\ Advance(r, "done")
    /\ answer' = [answer EXCEPT ![r] = status]
    /\ own' = [own EXCEPT ![r] = Untouched]
    /\ audit' = IF ownAudit[r] THEN audit \cup {r} ELSE audit
    /\ ownAudit' = [ownAudit EXCEPT ![r] = FALSE]
    /\ UNCHANGED <<rows, hook, snapshot, prior, committed, change>>

\* Seeded fault: the failed transaction is not rolled back and keeps its lock.
FailHoldingLock(r, status) ==
    /\ Advance(r, "done")
    /\ answer' = [answer EXCEPT ![r] = status]
    /\ UNCHANGED <<rows, audit, hook, txnVars, change>>

\* work rejected: the transaction rolls back and the caller is told.
Fail(r, status) ==
    /\ Advance(r, "done")
    /\ answer' = [answer EXCEPT ![r] = status]
    /\ own' = [own EXCEPT ![r] = Untouched]
    /\ ownAudit' = [ownAudit EXCEPT ![r] = FALSE]
    /\ UNCHANGED <<rows, audit, hook, snapshot, prior, committed, change>>

\* No visible row: a delete may be told to ignore that, and its work returns.
Missing(r) ==
    IF request[r].op = "delete" /\ IgnoreMissing
    THEN /\ Advance(r, "commit")
         /\ UNCHANGED <<rows, audit, hook, txnVars, answer, change>>
    ELSE Fail(r, "404")

-----------------------------------------------------------------------------
\* restore() of a resource without soft delete is refused before anything.
Call(r) ==
    /\ phase[r] = "idle"
    /\ IF request[r].op = "restore" /\ ~ SoftDelete
       THEN Fail(r, "400")
       ELSE /\ Advance(r, "called")
            /\ UNCHANGED <<rows, audit, hook, txnVars, answer, change>>

\* adapter.transaction() begins; the memory adapter admits one at a time.
Begin(r) ==
    /\ phase[r] = "called"
    /\ isolation = "serial" => \A q \in Requests : phase[q] \notin Open
    /\ Advance(r, "scopes")
    /\ snapshot' = [snapshot EXCEPT ![r] =
            IF isolation = "repeatableRead" THEN Committed(r) ELSE NoRow]
    /\ UNCHANGED <<rows, audit, hook, own, ownAudit, prior, committed, answer,
                   change>>

ResolveScopes(r) ==
    /\ phase[r] = "scopes"
    /\ Advance(r, IF request[r].op \in WithPrior THEN "prior" ELSE "before")
    /\ UNCHANGED <<rows, audit, hook, txnVars, answer, change>>

ReadPrior(r) ==
    /\ phase[r] = "prior"
    /\ IF Selects(r, Seen(r))
       THEN /\ Advance(r, "before")
            /\ prior' = [prior EXCEPT ![r] = Seen(r)]
            /\ UNCHANGED <<rows, audit, hook, snapshot, own, ownAudit,
                           committed, answer, change>>
       ELSE Missing(r)

\* Seeded fault: one hook too many.
RunHookPastTheLast(r, kind) ==
    /\ phase[r] = kind
    /\ hook[r] <= HookCount
    /\ hook' = [hook EXCEPT ![r] = @ + 1]
    /\ UNCHANGED <<isolation, rows, audit, request, phase, txnVars, answer,
                   delivered, change>>

\* One more hook of the current kind; it may write through the session.
RunHook(r, kind) ==
    /\ phase[r] = kind
    /\ hook[r] < HookCount
    /\ hook' = [hook EXCEPT ![r] = @ + 1]
    /\ \E writes \in BOOLEAN :
        ownAudit' = [ownAudit EXCEPT ![r] = @ \/ writes]
    /\ UNCHANGED <<isolation, rows, audit, request, phase, snapshot, own, prior,
                   committed, answer, delivered, change>>

BeforeHook(r) == RunHook(r, "before")
AfterHook(r) == RunHook(r, "after")

\* Seeded fault: no serialization failures, only unique constraints.
ClashesOnIdentity(r) ==
    request[r].op = "create" /\ Committed(r) # NoRow

\* The unique identity is taken, or, at REPEATABLE READ, the row changed
\* since the snapshot (a serialization failure).
Clashes(r) ==
    LET op == request[r].op
        overtaken == isolation = "repeatableRead" /\ Committed(r) # snapshot[r]
    IN \/ op = "create" /\ Committed(r) # NoRow
       \/ op = "upsert" /\ Committed(r) # NoRow /\ overtaken
       \/ op \in WithPrior /\ overtaken

\* Seeded fault: the statement trusts the prior read and repeats no predicate.
FindsWhatWasChecked(r) ==
    \/ request[r].op \in {"create", "upsert"} /\ Committed(r) = NoRow
    \/ request[r].op = "upsert" /\ Selects(r, Committed(r))
    \/ request[r].op \in WithPrior /\ Committed(r) # NoRow

\* There is a row for the statement to act on, or it inserts one.
Finds(r) ==
    \/ request[r].op \in {"create", "upsert"} /\ Committed(r) = NoRow
    \/ request[r].op # "create" /\ Selects(r, Committed(r))

\* adapter.create/update/upsert/delete: one conditional statement, evaluated
\* on the committed row once its lock is free.
Mutate(r) ==
    /\ phase[r] = "before"
    /\ hook[r] = HookCount
    /\ ~ Locked(r)
    /\ \/ /\ Clashes(r)
          /\ Fail(r, Status("conflict"))
       \/ /\ ~ Clashes(r)
          /\ ~ Finds(r)
          /\ Missing(r)
       \/ /\ ~ Clashes(r)
          /\ Finds(r)
          /\ Advance(r, "after")
          /\ own' = [own EXCEPT ![r] =
                        Written(request[r], Committed(r), r, SoftDelete)]
          /\ hook' = [hook EXCEPT ![r] = 0]
          /\ UNCHANGED <<rows, audit, snapshot, ownAudit, prior, committed,
                         answer, change>>

\* The response is mapped and the event remembered; delete has no response.
Respond(r) ==
    /\ phase[r] = "after"
    /\ hook[r] = HookCount
    /\ Advance(r, "commit")
    /\ committed' = [committed EXCEPT ![r] =
            [prior |-> prior[r],
             response |-> IF request[r].op = "delete" THEN NoRow ELSE own[r]]]
    /\ UNCHANGED <<rows, audit, hook, snapshot, own, ownAudit, prior, answer,
                   change>>

\* A scope, hook, validator, mapping or statement throws.
Throw(r) ==
    /\ phase[r] \in {"scopes", "before", "after"}
    /\ \E error \in Errors : Fail(r, Status(error))

\* The adapter's commit succeeds and transaction() resolves.
Commit(r) ==
    LET id == request[r].id
        after == IF own[r] = Untouched THEN rows[id] ELSE own[r]
    IN
    /\ phase[r] = "commit"
    /\ rows' = [rows EXCEPT ![id] = after]
    /\ audit' = IF ownAudit[r] THEN audit \cup {r} ELSE audit
    /\ own' = [own EXCEPT ![r] = Untouched]
    /\ ownAudit' = [ownAudit EXCEPT ![r] = FALSE]
    /\ change' = IF own[r] = Untouched THEN change
                 ELSE [change EXCEPT ![r] =
                            [before |-> rows[id], after |-> after]]
    /\ IF committed[r] = NoEvent
       THEN /\ answer' = [answer EXCEPT ![r] = "ignored"]
            /\ Advance(r, "done")
       ELSE /\ answer' = [answer EXCEPT ![r] = "ok"]
            /\ Advance(r, "emit")
    /\ UNCHANGED <<hook, snapshot, prior, committed>>

\* Seeded fault: the event is emitted because `committed` is set.
EmitThoughRejected(r) ==
    /\ phase[r] = "commit"
    /\ committed[r] # NoEvent
    /\ Advance(r, "emit")
    /\ answer' = [answer EXCEPT ![r] = "500"]
    /\ own' = [own EXCEPT ![r] = Untouched]
    /\ ownAudit' = [ownAudit EXCEPT ![r] = FALSE]
    /\ UNCHANGED <<rows, audit, hook, snapshot, prior, committed, change>>

\* The adapter's commit fails and transaction() rejects: `committed` is set,
\* and must not be emitted.
CommitRejected(r) ==
    /\ phase[r] = "commit"
    /\ \E error \in {"conflict", "constraint", "unknown"} :
        Fail(r, Status(error))

\* Seeded fault: a throwing hook ends the loop.
AfterCommitStopping(r) ==
    /\ phase[r] = "emit"
    /\ delivered' = [delivered EXCEPT ![r] = @ + 1]
    /\ phase' \in {[phase EXCEPT ![r] = p] : p \in {"done", "emit"}}
    /\ UNCHANGED <<isolation, rows, audit, request, hook, txnVars, answer,
                   change>>

\* emitAfterCommit tells the next hook.  If the hook throws, the error sink
\* is told; if that throws too, nothing is: the loop goes on regardless.
AfterCommit(r) ==
    /\ phase[r] = "emit"
    /\ delivered' = [delivered EXCEPT ![r] = @ + 1]
    /\ phase' = [phase EXCEPT ![r] =
                    IF delivered[r] + 1 = HookCount THEN "done" ELSE "emit"]
    /\ UNCHANGED <<isolation, rows, audit, request, hook, txnVars, answer,
                   change>>

AllDone ==
    /\ \A r \in Requests : phase[r] = "done"
    /\ UNCHANGED vars

\* What r does once it was called, apart from failing.
Step(r) ==
    \/ Begin(r)
    \/ ResolveScopes(r)
    \/ ReadPrior(r)
    \/ BeforeHook(r)
    \/ Mutate(r)
    \/ AfterHook(r)
    \/ Respond(r)
    \/ Commit(r)
    \/ AfterCommit(r)

Next ==
    \/ \E r \in Requests : Call(r) \/ Step(r) \/ Throw(r) \/ CommitRejected(r)
    \/ AllDone

Spec == Init /\ [][Next]_vars

\* Hooks settle, and the adapter answers.
FairSpec == Spec /\ \A r \in Requests : WF_vars(Step(r))

-----------------------------------------------------------------------------
TypeOK ==
    /\ isolation \in Isolations
    /\ rows \in [Ids -> Row \cup {NoRow}]
    /\ audit \subseteq Requests
    /\ request \in [Requests -> Request]
    /\ phase \in [Requests -> Phases]
    /\ hook \in [Requests -> 0 .. HookCount]
    /\ snapshot \in [Requests -> Row \cup {NoRow}]
    /\ own \in [Requests -> Row \cup {NoRow, Untouched}]
    /\ ownAudit \in [Requests -> BOOLEAN]
    /\ prior \in [Requests -> Row \cup {NoRow}]
    /\ committed \in [Requests -> Event \cup {NoEvent}]
    /\ answer \in [Requests ->
            {"pending", "ok", "ignored", "http", "400", "404", "409", "500"}]
    /\ delivered \in [Requests -> 0 .. HookCount]
    /\ change \in [Requests -> Change \cup {NoChange}]

(* An afterCommit hook hears only of a mutation that is in the database,   *)
(* and the response it is shown is the row that was committed: never one   *)
(* that was rolled back, ignored, or refused by the commit itself.         *)
EventTellsTheTruth ==
    \A r \in Requests : delivered[r] > 0 =>
        /\ answer[r] = "ok"
        /\ change[r] # NoChange
        /\ request[r].op # "delete" => committed[r].response = change[r].after

(* The prior state shown to hooks and in the event is the state that the   *)
(* mutation replaced, over every adapter but READ COMMITTED, where another *)
(* commit may come between the reading and the writing statement.          *)
PriorIsReplaced ==
    \A r \in Requests :
        (/\ isolation # "readCommitted"
         /\ change[r] # NoChange
         /\ request[r].op \in WithPrior) => prior[r] = change[r].before

(* What a hook wrote through the session shares the fate of the mutation:  *)
(* a request that was refused has left nothing behind, in the resource or  *)
(* in the hooks' own table.                                                *)
HookWritesShareFate ==
    \A r \in Requests :
        /\ r \in audit => answer[r] \in {"ok", "ignored"}
        /\ \A i \in Ids :
            rows[i] # NoRow /\ rows[i].by = r => answer[r] = "ok"

(* Each committed mutation reaches every afterCommit hook before its       *)
(* request ends, also when a hook and the error sink throw; and nothing    *)
(* else does.                                                              *)
EveryHookIsTold ==
    \A r \in Requests : phase[r] = "done" =>
        delivered[r] = IF answer[r] = "ok" THEN HookCount ELSE 0

(* No request changes, takes over or deletes a row that its scopes do not  *)
(* select when it takes effect, whatever committed since it read the row:  *)
(* also if another request moved the row to another tenant in between.     *)
(* (Where a request leaves a row is up to the mapping and the scopes'      *)
(* values, and no promise of the code's.)                                  *)
ScopesHoldAtTheWrite ==
    [][\A r \in Requests, i \in Ids :
        (/\ change'[r] # change[r]
         /\ rows[i] # NoRow
         /\ rows'[i] # rows[i]) => rows[i].tenant = request[r].tenant]_vars

(* A soft-deleted row stays as it is until a restore brings it back: no    *)
(* update or upsert that read it before it was deleted resurrects it.      *)
OnlyRestoreRevives ==
    [][\A i \in Ids :
        (rows[i] # NoRow /\ rows[i].deleted /\ rows'[i] # rows[i]) =>
            \E r \in Requests :
                change'[r] # change[r] /\ request[r].op = "restore"]_vars

(* Every request that is made is answered and done, if hooks settle.       *)
EveryRequestEnds ==
    \A r \in Requests : (phase[r] = "called") ~> (phase[r] = "done")

(* The service keeps CrudContract over all three adapters.                 *)
Contract == INSTANCE CrudContract

KeepsContract == Contract!Spec

(* packages/crud/README.md on delete with missing "ignore": "no mutation   *)
(* hooks, validators, or `afterCommit` event run when there is no visible  *)
(* row".  Expected to fail: a row that vanishes between the prior read and *)
(* the delete statement is ignored after the before hooks have run.        *)
IgnoredDeleteRunsNoHooks ==
    \A r \in Requests : answer[r] = "ignored" => hook[r] = 0
=============================================================================
