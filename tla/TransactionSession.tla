------------------------- MODULE TransactionSession -------------------------
(***************************************************************************)
(* How the TypeORM and the Drizzle adapter run the statements of a request *)
(* in transactions.                                                        *)
(*                                                                         *)
(* A request is an operation of CrudService, which asks the adapter for a  *)
(* transaction, or a bare call of the adapter, which opens one only if it  *)
(* must.  The transaction is the adapter's own or an application runner's, *)
(* and a runner may give another one than was asked for: stronger, weaker, *)
(* or a savepoint of an ambient transaction.  Inside, the service, its     *)
(* hooks and its validators call adapters with the session; every such     *)
(* call is admitted or refused by what the session is believed to be.      *)
(*                                                                         *)
(* A runner reports what it really gave, or reports nothing if that is     *)
(* exactly what was asked for (typeorm-adapter.ts: "Omission preserves the *)
(* legacy exact-request contract").  The work awaits its calls.            *)
(***************************************************************************)
EXTENDS Naturals

CONSTANTS
    Requests,
    Adapters,
    Configs,    \* the configurations of an adapter to consider
    NoTxn,      \* there is no transaction (yet)
    NoSession,  \* work is not running in a session
    NoCall,     \* no call of an adapter is under way
    NoView,     \* nothing has been read
    MaxCalls,   \* bound: statements of a request
    MaxWrites   \* bound: commits by others

\* READ COMMITTED and REPEATABLE READ.
Levels == {"rc", "rr"}
Modes == {"read only", "read write"}

\* `operation` and `row` are the isolation levels an adapter is configured
\* with for operations and for its row predicate.
Config == [orm : {"typeorm", "drizzle"}, runner : BOOLEAN,
           operation : Levels \cup {"none"}, row : Levels \cup {"none"}]

Transaction == [access : Modes, level : Levels, owns : BOOLEAN]

\* Every statement outside a transaction is one by itself.
Autocommit == [access |-> "read write", level |-> "rc", owns |-> TRUE]

Operations == {"list", "read", "create", "update", "upsert", "delete",
               "restore"}
Calls == {"findOne", "findMany", "findCounted", "create", "update", "upsert",
          "delete"}

Request == [adapter : Adapters, bare : {FALSE}, name : Operations]
           \cup [adapter : Adapters, bare : {TRUE}, name : Calls]

Call == [adapter : Adapters, name : Calls \cup {"reference"},
         stage : {"resolve", "rows", "total"}]

ASSUME ConfigAssumption == Configs \subseteq Config
ASSUME BoundAssumption == MaxCalls \in Nat /\ MaxWrites \in Nat
ASSUME PlaceholderAssumption ==
    /\ NoTxn \notin Transaction /\ NoSession \notin Transaction
    /\ NoCall \notin Call /\ NoView \notin Nat

VARIABLES
    config,     \* config[a]: how adapter a is configured
    request,    \* request[r]: what r is
    phase,      \* phase[r]: where r stands
    txn,        \* txn[r]: the transaction r really has, or had
    session,    \* session[r]: the active session's `transaction`
    call,       \* call[r]: the adapter call under way
    executed,   \* executed[r]: statements executed
    snapshot,   \* snapshot[r]: what REPEATABLE READ goes on seeing
    policy,     \* policy[r]: what the row predicate was resolved from
    page,       \* page[r]: what rows and total of a list were read from
    holds,      \* holds[r]: a query runner of r has its connection
    wrote,      \* wrote[r]: r has executed a mutation
    durable,    \* durable[r]: what r wrote is committed for good
    result,     \* result[r]: how r went, for its caller once r is done
    version     \* commits by others, as the database counts them

vars == <<config, request, phase, txn, session, call, executed, snapshot,
          policy, page, holds, wrote, durable, result, version>>

Phases == {"idle", "connected", "began", "inside", "ending", "closing",
           "done"}

Init ==
    /\ config \in [Adapters -> Configs]
    /\ request \in [Requests -> Request]
    /\ \A r \in Requests : request[r].name = "upsert" =>
        config[request[r].adapter].orm = "typeorm"
    /\ phase = [r \in Requests |-> "idle"]
    /\ txn = [r \in Requests |-> NoTxn]
    /\ session = [r \in Requests |-> NoSession]
    /\ call = [r \in Requests |-> NoCall]
    /\ executed = [r \in Requests |-> 0]
    /\ snapshot = [r \in Requests |-> NoView]
    /\ policy = [r \in Requests |-> NoView]
    /\ page = [r \in Requests |-> [rows |-> NoView, total |-> NoView]]
    /\ holds = [r \in Requests |-> FALSE]
    /\ wrote = [r \in Requests |-> FALSE]
    /\ durable = [r \in Requests |-> FALSE]
    /\ result = [r \in Requests |-> "pending"]
    /\ version = 0

-----------------------------------------------------------------------------
Reads == {"list", "read", "findOne", "findMany", "findCounted"}

Of(r) == config[request[r].adapter]

\* "none" asks for nothing.
Strongest(levels) == IF "rr" \in levels THEN "rr" ELSE "rc"

\* Seeded fault: the row predicate's level is left to its statements.
RequirementsWithoutRow(op, c) ==
    [access |-> IF op \in Reads THEN "read only" ELSE "read write",
     level |-> Strongest({IF op = "list" THEN "rr" ELSE "rc", c.operation}),
     owns |-> op \notin Reads]

\* What transaction() asks for, for an operation of the service.
TransactionRequirements(op, c) ==
    [access |-> IF op \in Reads THEN "read only" ELSE "read write",
     level |-> Strongest({IF op = "list" THEN "rr" ELSE "rc", c.operation}
                         \cup IF op = "create" THEN {} ELSE {c.row}),
     owns |-> op \notin Reads]

\* Seeded fault: a count is taken at whatever level there is.
CallRequirementsUncounted(name, c) ==
    [access |-> IF name \in Reads THEN "read only" ELSE "read write",
     level |-> Strongest({c.operation}
                         \cup IF name = "create" THEN {} ELSE {c.row}),
     owns |-> name \notin Reads]

\* What a call of the adapter asks for.
CallRequirements(name, c) ==
    [access |-> IF name \in Reads THEN "read only" ELSE "read write",
     level |-> Strongest({c.operation}
                         \cup (IF name = "findCounted" THEN {"rr"} ELSE {})
                         \cup IF name = "create" THEN {} ELSE {c.row}),
     owns |-> name \notin Reads]

Needs(r) ==
    IF request[r].bare THEN CallRequirements(request[r].name, Of(r))
    ELSE TransactionRequirements(request[r].name, Of(r))

\* A bare call opens a transaction if something makes it.
Forced(r) ==
    \/ Of(r).runner
    \/ Of(r).operation # "none"
    \/ request[r].name = "findCounted"
    \/ Of(r).row # "none" /\ request[r].name # "create"

Standalone(r) == request[r].bare /\ ~ Forced(r)

\* TypeORM's own transaction is begun and released by the adapter itself.
QueryRunner(r) == Of(r).orm = "typeorm" /\ ~ Of(r).runner

\* What the caller gets, and what the transaction is left for.
End(r, p, outcome) ==
    /\ phase' = [phase EXCEPT ![r] = p]
    /\ result' = [result EXCEPT ![r] = outcome]
    /\ session' = [session EXCEPT ![r] = NoSession]
    /\ call' = [call EXCEPT ![r] = NoCall]

Go(r, p) ==
    /\ phase' = [phase EXCEPT ![r] = p]
    /\ UNCHANGED <<result, session, call>>

Unread == UNCHANGED <<config, request, executed, snapshot, policy, page, wrote,
                      version>>

-----------------------------------------------------------------------------
\* A bare call without a transaction: the statement goes to the pool.
RunStandalone(r) ==
    /\ phase[r] = "idle"
    /\ Standalone(r)
    /\ phase' = [phase EXCEPT ![r] = "inside"]
    /\ txn' = [txn EXCEPT ![r] = Autocommit]
    /\ call' = [call EXCEPT ![r] = [adapter |-> request[r].adapter,
                                    name |-> request[r].name,
                                    stage |-> "rows"]]
    /\ UNCHANGED <<session, result, holds, durable>>
    /\ Unread

\* runner.run: the application opens, or joins, some transaction.
RunnerBegins(r) ==
    /\ phase[r] = "idle"
    /\ ~ Standalone(r)
    /\ Of(r).runner
    /\ \E given \in Transaction : txn' = [txn EXCEPT ![r] = given]
    /\ Go(r, "began")
    /\ UNCHANGED <<holds, durable>>
    /\ Unread

\* Drizzle's own: database.transaction with the access mode and level.
DrizzleBegins(r) ==
    /\ phase[r] = "idle"
    /\ ~ Standalone(r)
    /\ Of(r).orm = "drizzle" /\ ~ Of(r).runner
    /\ \/ /\ txn' = [txn EXCEPT ![r] = [Needs(r) EXCEPT !.owns = TRUE]]
          /\ Go(r, "began")
       \/ /\ End(r, "done", "error")
          /\ UNCHANGED txn
    /\ UNCHANGED <<holds, durable>>
    /\ Unread

\* TypeORM's own: a query runner takes a connection of the pool.
Connect(r) ==
    /\ phase[r] = "idle"
    /\ ~ Standalone(r)
    /\ QueryRunner(r)
    /\ \/ /\ holds' = [holds EXCEPT ![r] = TRUE]
          /\ Go(r, "connected")
       \/ /\ End(r, "done", "error")
          /\ UNCHANGED holds
    /\ UNCHANGED <<txn, durable>>
    /\ Unread

\* Seeded fault: the configured level is passed on as it is.
StartTransactionAsConfigured(r) ==
    /\ phase[r] = "connected"
    /\ txn' = [txn EXCEPT ![r] = [access |-> "read write",
                                 level |-> Of(r).operation,
                                 owns |-> TRUE]]
    /\ Go(r, "began")
    /\ UNCHANGED <<holds, durable>>
    /\ Unread

\* startTransaction stands before the try: if it fails nothing is released.
StartTransaction(r) ==
    /\ phase[r] = "connected"
    /\ \/ /\ txn' = [txn EXCEPT ![r] = [access |-> "read write",
                                        level |-> Needs(r).level,
                                        owns |-> TRUE]]
          /\ Go(r, "began")
       \/ /\ End(r, "done", "error")
          /\ UNCHANGED txn
    /\ UNCHANGED <<holds, durable>>
    /\ Unread

\* Seeded fault: the access mode is not set.
NeverReadOnly(r) == FALSE

\* The transaction is still to be made read only.
ToBeReadOnly(r) ==
    QueryRunner(r) /\ Needs(r).access = "read only"
        /\ txn[r].access = "read write"

SetReadOnly(r) ==
    /\ phase[r] = "began"
    /\ ToBeReadOnly(r)
    /\ \/ /\ txn' = [txn EXCEPT ![r].access = "read only"]
          /\ Go(r, "began")
       \/ /\ End(r, "ending", "error")
          /\ UNCHANGED txn
    /\ UNCHANGED <<holds, durable>>
    /\ Unread

\* Seeded fault: a savepoint will do for a mutation.
HonorsButCommit(needs, given) ==
    /\ given.access = needs.access
    /\ needs.level = "rr" => given.level = "rr"

\* resolveEffectiveTransaction accepts what is reported.
Honors(needs, given) ==
    /\ given.access = needs.access
    /\ needs.level = "rr" => given.level = "rr"
    /\ needs.owns => given.owns

\* What enter believes: the report, or what was asked for.
Effective(r) ==
    IF Of(r).runner THEN txn[r] ELSE [Needs(r) EXCEPT !.owns = TRUE]

\* The session is registered and work begins, with the call for a bare one.
Enter(r) ==
    /\ phase[r] = "began"
    /\ ~ ToBeReadOnly(r)
    /\ IF Honors(Needs(r), Effective(r))
       THEN /\ phase' = [phase EXCEPT ![r] = "inside"]
            /\ session' = [session EXCEPT ![r] = Effective(r)]
            /\ call' = IF request[r].bare
                       THEN [call EXCEPT ![r] = [adapter |-> request[r].adapter,
                                                 name |-> request[r].name,
                                                 stage |-> "resolve"]]
                       ELSE call
            /\ UNCHANGED result
       ELSE End(r, "ending", "error")
    /\ UNCHANGED <<txn, holds, durable>>
    /\ Unread

-----------------------------------------------------------------------------
\* Seeded fault: the session's isolation level is not looked at.
AdmitsAnyLevel(r, a, name) ==
    LET needs == CallRequirements(name, config[a])
    IN /\ session[r] # NoSession
       /\ a = request[r].adapter
       /\ needs.access = "read write" => session[r].access = "read write"
       /\ needs.owns => session[r].owns

\* Seeded fault: the session's access mode and commit are not looked at.
AdmitsAnyMutation(r, a, name) ==
    LET needs == CallRequirements(name, config[a])
    IN /\ session[r] # NoSession
       /\ a = request[r].adapter
       /\ needs.level = "rr" => session[r].level = "rr"

\* withRepository and withExecutor accept the session for a call.
Admits(r, a, name) ==
    LET needs == CallRequirements(name, config[a])
    IN /\ session[r] # NoSession
       /\ a = request[r].adapter
       /\ needs.access = "read write" => session[r].access = "read write"
       /\ needs.level = "rr" => session[r].level = "rr"
       /\ needs.owns => session[r].owns

\* The reference checker takes any active TypeORM session that may write.
AdmitsReference(r) ==
    /\ session[r] # NoSession
    /\ Of(r).orm = "typeorm"
    /\ session[r].access = "read write"

\* The service, a hook or a validator calls an adapter with the session.
Ask(r, a, name) ==
    /\ phase[r] = "inside"
    /\ ~ request[r].bare
    /\ call[r] = NoCall
    /\ executed[r] < MaxCalls
    /\ IF name = "reference" THEN AdmitsReference(r)
       ELSE /\ name = "upsert" => config[a].orm = "typeorm"
            /\ Admits(r, a, name)
    /\ call' = [call EXCEPT ![r] = [adapter |-> a, name |-> name,
                                    stage |-> "resolve"]]
    /\ UNCHANGED <<phase, txn, session, holds, durable, result>>
    /\ Unread

\* What a statement of r sees.
View(r) ==
    IF txn[r].level = "rr" /\ snapshot[r] # NoView THEN snapshot[r]
    ELSE version

\* The row predicate is resolved, from what the application reads with what
\* it is handed: TypeORM's repository outside the transaction; Drizzle hands
\* over the context alone, and the application reads through its transaction.
ResolvePredicate(r) ==
    /\ phase[r] = "inside"
    /\ call[r] # NoCall
    /\ call[r].stage = "resolve"
    /\ call' = [call EXCEPT ![r].stage = "rows"]
    /\ IF Of(r).row = "none" \/ call[r].name \in {"create", "reference"}
       THEN /\ policy' = [policy EXCEPT ![r] = NoView]
            /\ UNCHANGED snapshot
       ELSE IF Of(r).orm = "typeorm"
       THEN /\ policy' = [policy EXCEPT ![r] = version]
            /\ UNCHANGED snapshot
       ELSE /\ policy' = [policy EXCEPT ![r] = View(r)]
            /\ snapshot' = [snapshot EXCEPT ![r] = View(r)]
    /\ UNCHANGED <<config, request, phase, txn, session, executed, page, holds,
                   wrote, durable, result, version>>

\* A statement reaches the database; a counted list takes two.
Execute(r) ==
    /\ phase[r] = "inside"
    /\ call[r] # NoCall
    /\ call[r].stage \in {"rows", "total"}
    /\ executed' = [executed EXCEPT ![r] = @ + 1]
    /\ snapshot' = [snapshot EXCEPT ![r] = View(r)]
    /\ IF call[r].name = "findCounted" /\ call[r].stage = "rows"
       THEN /\ call' = [call EXCEPT ![r].stage = "total"]
            /\ page' = [page EXCEPT ![r] = [rows |-> View(r),
                                            total |-> NoView]]
       ELSE /\ call' = [call EXCEPT ![r] = NoCall]
            /\ page' = IF call[r].name = "findCounted"
                       THEN [page EXCEPT ![r].total = View(r)] ELSE page
    /\ LET writes == call[r].name \in Calls \ Reads
       IN /\ wrote' = [wrote EXCEPT ![r] = @ \/ writes]
          /\ durable' = [durable EXCEPT ![r] =
                            @ \/ (writes /\ session[r] = NoSession)]
    /\ UNCHANGED <<config, request, phase, txn, session, policy, holds, result,
                   version>>

\* The session is deleted in `finally`, before the commit or the rollback.
WorkEnds(r) ==
    /\ phase[r] = "inside"
    /\ \E outcome \in {"ok", "error"} :
        /\ outcome = "ok" => call[r] = NoCall
        /\ End(r, IF Standalone(r) THEN "done" ELSE "ending", outcome)
    /\ UNCHANGED <<txn, holds, durable>>
    /\ Unread

-----------------------------------------------------------------------------
\* Seeded fault: a query runner is released only after a commit.
LeftBehind(r) == IF QueryRunner(r) /\ result[r] = "ok" THEN "closing" ELSE "done"

\* A query runner is still to be released.
Afterwards(r) == IF QueryRunner(r) THEN "closing" ELSE "done"

\* The real commit, or the release of a savepoint, which is nothing durable.
Commit(r) ==
    /\ phase[r] = "ending"
    /\ result[r] = "ok"
    /\ durable' = [durable EXCEPT ![r] = @ \/ (wrote[r] /\ txn[r].owns)]
    /\ Go(r, Afterwards(r))
    /\ UNCHANGED <<txn, holds>>
    /\ Unread

\* The work failed, or the commit does.
Rollback(r) ==
    /\ phase[r] = "ending"
    /\ End(r, Afterwards(r), "error")
    /\ UNCHANGED <<txn, holds, durable>>
    /\ Unread

\* queryRunner.release() in `finally`, also when the rollback failed.
Release(r) ==
    /\ phase[r] = "closing"
    /\ holds' = [holds EXCEPT ![r] = FALSE]
    /\ Go(r, "done")
    /\ UNCHANGED <<txn, durable>>
    /\ Unread

\* Somebody else commits a change of the table.
OtherCommit ==
    /\ version < MaxWrites
    /\ version' = version + 1
    /\ UNCHANGED <<config, request, phase, txn, session, call, executed,
                   snapshot, policy, page, holds, wrote, durable, result>>

AllDone ==
    /\ \A r \in Requests : phase[r] = "done"
    /\ UNCHANGED vars

Step(r) ==
    \/ RunStandalone(r)
    \/ RunnerBegins(r)
    \/ DrizzleBegins(r)
    \/ Connect(r)
    \/ StartTransaction(r)
    \/ SetReadOnly(r)
    \/ Enter(r)
    \/ \E a \in Adapters, name \in Calls \cup {"reference"} : Ask(r, a, name)
    \/ ResolvePredicate(r)
    \/ Execute(r)
    \/ WorkEnds(r)
    \/ Commit(r)
    \/ Rollback(r)
    \/ Release(r)

Next ==
    \/ \E r \in Requests : Step(r)
    \/ OtherCommit
    \/ AllDone

Spec == Init /\ [][Next]_vars

-----------------------------------------------------------------------------
TypeOK ==
    /\ config \in [Adapters -> Configs]
    /\ request \in [Requests -> Request]
    /\ phase \in [Requests -> Phases]
    /\ txn \in [Requests -> Transaction \cup {NoTxn}]
    /\ session \in [Requests -> Transaction \cup {NoSession}]
    /\ call \in [Requests -> Call \cup {NoCall}]
    /\ executed \in [Requests -> Nat]
    /\ snapshot \in [Requests -> Nat \cup {NoView}]
    /\ policy \in [Requests -> Nat \cup {NoView}]
    /\ page \in [Requests -> [rows : Nat \cup {NoView},
                              total : Nat \cup {NoView}]]
    /\ holds \in [Requests -> BOOLEAN]
    /\ wrote \in [Requests -> BOOLEAN]
    /\ durable \in [Requests -> BOOLEAN]
    /\ result \in [Requests -> {"pending", "ok", "error"}]
    /\ version \in 0 .. MaxWrites

(* What the adapter believes of an active session is what the transaction  *)
(* of the session really is, and that transaction is open: neither a       *)
(* runner's deviation nor the way TypeORM makes a transaction read only    *)
(* leaves a session that claims more, or less, than there is.              *)
SessionTellsTheTruth ==
    \A r \in Requests :
        session[r] # NoSession => session[r] = txn[r] /\ phase[r] = "inside"

(* A statement runs in a transaction of the isolation level that its       *)
(* configuration, its row predicate and its count ask for; a mutation runs *)
(* only where it may write and where the commit is the real one.           *)
StatementsAreCovered ==
    [][\A r \in Requests :
        (executed'[r] # executed[r] /\ call[r].name # "reference") =>
            LET needs == CallRequirements(call[r].name, config[call[r].adapter])
            IN /\ needs.level = "rr" => txn[r].level = "rr"
               /\ needs.access = "read write" =>
                    txn[r].access = "read write" /\ txn[r].owns]_vars

\* The calls the service itself makes for an operation.
OwnCalls(op) ==
    CASE op = "list" -> {"findMany", "findCounted"}
      [] op = "read" -> {"findOne"}
      [] op \in {"update", "restore"} -> {"findOne", "update"}
      [] op = "delete" -> {"findOne", "delete", "update"}
      [] OTHER -> {op}

(* An operation that has got its transaction is not refused by its own     *)
(* adapter later on: what transaction() asks for covers what the calls of  *)
(* the service will, the row predicate's level included.                   *)
OwnCallsAreAdmitted ==
    \A r \in Requests :
        (session[r] # NoSession /\ ~ request[r].bare) =>
            \A name \in OwnCalls(request[r].name) :
                Admits(r, request[r].adapter, name)

(* A caller that was told "ok" can rely on it: what it wrote is committed  *)
(* for good and not at the mercy of an ambient transaction, so that        *)
(* afterCommit hooks speak the truth.                                      *)
AcknowledgedIsDurable ==
    \A r \in Requests :
        (phase[r] = "done" /\ result[r] = "ok" /\ wrote[r]) => durable[r]

(* A list or a read changes nothing for good, whatever its hooks and       *)
(* validators call with its session.                                       *)
ReadsChangeNothing ==
    \A r \in Requests : request[r].name \in Reads => ~ wrote[r]

(* The total of a counted list counts the rows the page was cut from,      *)
(* although others commit between the two statements.                      *)
CountedPagesAgree ==
    \A r \in Requests :
        page[r].total # NoView => page[r].total = page[r].rows

(* Of the connections TypeORM's own transactions take from the pool, only  *)
(* one whose transaction could not be started is kept after the request.   *)
OnlyFailedStartsKeepConnections ==
    \A r \in Requests : (phase[r] = "done" /\ holds[r]) => txn[r] = NoTxn

(* typeorm-adapter.ts on rowPredicate.transaction: "Minimum transaction    *)
(* settings needed while resolving and applying this predicate".  Expected *)
(* to fail: the predicate is resolved from outside the transaction.        *)
PredicateIsOfTheSnapshot ==
    [][\A r \in Requests :
        (/\ executed'[r] # executed[r]
         /\ policy[r] # NoView
         /\ Of(r).row = "rr") => policy[r] = View(r)]_vars
=============================================================================
