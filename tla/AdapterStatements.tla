------------------------- MODULE AdapterStatements --------------------------
(***************************************************************************)
(* How the three database adapters carry out the mutations of one row      *)
(* inside the transactions of CrudService:                                 *)
(*                                                                         *)
(*   drizzle    one UPDATE or DELETE ... WHERE ... RETURNING;              *)
(*   prisma     a findFirst that takes no lock, then one UPDATE or DELETE  *)
(*              of its identity AND the predicate;                         *)
(*   typeorm    a SELECT ... FOR UPDATE, then save or remove by identity;  *)
(*   selected   (TypeORM with `select`) the same lock, then an UPDATE or   *)
(*              DELETE of the identity within the predicate.               *)
(*                                                                         *)
(* create is one INSERT, and TypeORM's upsert one INSERT ... ON CONFLICT   *)
(* DO UPDATE ... WHERE.  The database is PostgreSQL: a statement sees the  *)
(* committed row when it is sent, then waits for the row's lock.  At READ  *)
(* COMMITTED it then tests the condition again on the latest version, at   *)
(* REPEATABLE READ it fails if there is one.                               *)
(***************************************************************************)
EXTENDS Naturals, RowMutation

CONSTANTS
    Clients,
    Worlds,             \* [adapter, isolation, calls, rows]: rows may occur
    MaxOthers,          \* bound: writes of other programs
    Compiled(_, _, _),  \* Compiled(adapter, predicate, row)
    Free                \* nobody's lock

ASSUME FreeAssumption == Free \notin Clients
ASSUME RowsAssumption ==
    Gone \notin Rows /\ \A r \in Rows : r = [f \in DOMAIN r |-> r[f]]
ASSUME WorldsAssumption ==
    \A w \in Worlds :
        /\ w.rows \subseteq Rows
        /\ \A c \in DOMAIN w.calls :
              /\ c \in Clients /\ w.calls[c].values \in Rows
              /\ \A r \in Rows : Overwritten(w.calls[c], r) \in Rows

VARIABLES
    world,      \* the adapter, its isolation level, and what clients ask
    row,        \* the committed row
    lock,       \* the client whose transaction holds the row
    client,     \* the transaction of each client:
                \*   at      idle, found, waiting, holding, written, answered
                \*   seen    what became of the version its statement found
                \*   row     the row it loaded (holding) or leaves (written)
                \*   wrote   whether it made a version of the row
                \*   answer  what its call returns, once that is known
    others      \* how often another program wrote the row

vars == <<world, row, lock, client, others>>

Asking == DOMAIN world.calls
Call(c) == world.calls[c]
IsAt(c, place) == client[c].at = place
Locks == world.adapter \in {"typeorm", "selected"}
Candidate(c) ==
    row # Gone /\ Compiled(world.adapter, Call(c).predicate, row)

NotAsked == [at |-> "idle", seen |-> "same", row |-> Gone, wrote |-> FALSE,
             answer |-> Pending]

Init ==
    /\ world \in Worlds
    /\ row \in world.rows \cup {Gone}
    /\ lock = Free
    /\ client = [c \in Asking |-> NotAsked]
    /\ others = 0

Answered(c, answer) ==
    client' = [client EXCEPT ![c].at = "answered", ![c].answer = answer]
Goes(c, place) == client' = [client EXCEPT ![c].at = place]
Leaves(c, after, wrote, answer) ==
    /\ client' = [client EXCEPT ![c].at = "written", ![c].row = after,
                                ![c].wrote = wrote, ![c].answer = answer]
    /\ lock' = c

(***************************************************************************)
(* Prisma's findFirst: nothing found is the answer.                        *)
(***************************************************************************)
Find(c) ==
    /\ IsAt(c, "idle") /\ world.adapter = "prisma"
    /\ Call(c).op \in {"update", "delete"}
    /\ IF Candidate(c) THEN Goes(c, "found") ELSE Answered(c, Missing)
    /\ UNCHANGED <<world, row, lock, others>>

\* Mutant: TypeORM's first statement reads without FOR UPDATE.
LocateWithoutLock(c) ==
    /\ IsAt(c, IF world.adapter = "prisma" THEN "found" ELSE "idle")
    /\ Call(c).op \in {"update", "delete"}
    /\ CASE Candidate(c) /\ Locks ->
               client' = [client EXCEPT ![c].at = "holding", ![c].row = row]
         [] Candidate(c) /\ ~Locks -> Goes(c, "waiting")
         [] OTHER -> Answered(c, Missing)
    /\ UNCHANGED <<world, row, lock, others>>

\* Mutant: a statement passes over a row that is locked (SKIP LOCKED).
LocateSkippingLocked(c) ==
    /\ IsAt(c, IF world.adapter = "prisma" THEN "found" ELSE "idle")
    /\ Call(c).op \in {"update", "delete"}
    /\ IF Candidate(c) /\ lock = Free
       THEN Goes(c, "waiting") ELSE Answered(c, Missing)
    /\ UNCHANGED <<world, row, lock, others>>

(***************************************************************************)
(* A statement with a condition is sent.  Prisma's finds its record by the *)
(* identity of the record found AND the predicate (P2025 when none is).    *)
(***************************************************************************)
Locate(c) ==
    /\ IsAt(c, IF world.adapter = "prisma" THEN "found" ELSE "idle")
    /\ Call(c).op \in {"update", "delete"}
    /\ IF Candidate(c) THEN Goes(c, "waiting") ELSE Answered(c, Missing)
    /\ UNCHANGED <<world, row, lock, others>>

SendInsert(c) ==
    /\ IsAt(c, "idle") /\ Call(c).op \in {"create", "upsert"}
    /\ Goes(c, "waiting")
    /\ UNCHANGED <<world, row, lock, others>>

(***************************************************************************)
(* The statement gets the row.                                             *)
(***************************************************************************)
CannotSerialize(c) ==
    world.isolation = "repeatable read" /\ client[c].seen # "same"
IsDeleted(c) == client[c].seen = "deleted"

Overwrite(c, r) ==
    IF Call(c).op = "delete" THEN Gone ELSE Overwritten(Call(c), r)
Returned(c, r) ==
    Answer("written", IF Call(c).op = "delete" THEN r ELSE Overwrite(c, r))

\* Mutant: Prisma's second statement names the identity alone.
GrantByIdentity(c) ==
    /\ IsAt(c, "waiting") /\ Call(c).op \in {"update", "delete"}
    /\ lock = Free
    /\ CASE CannotSerialize(c) -> Answered(c, Failed) /\ UNCHANGED lock
         [] ~CannotSerialize(c) /\ (IsDeleted(c) \/ row = Gone) ->
               Answered(c, Missing) /\ UNCHANGED lock
         [] ~CannotSerialize(c) /\ ~IsDeleted(c) /\ row # Gone /\ Locks ->
               /\ client' = [client EXCEPT ![c].at = "holding", ![c].row = row]
               /\ lock' = c
         [] OTHER -> Leaves(c, Overwrite(c, row), TRUE, Returned(c, row))
    /\ UNCHANGED <<world, row, others>>

Grant(c) ==
    /\ IsAt(c, "waiting") /\ Call(c).op \in {"update", "delete"}
    /\ lock = Free
    /\ CASE CannotSerialize(c) -> Answered(c, Failed) /\ UNCHANGED lock
         [] ~CannotSerialize(c) /\ (IsDeleted(c) \/ ~Candidate(c)) ->
               Answered(c, Missing) /\ UNCHANGED lock
         [] ~CannotSerialize(c) /\ ~IsDeleted(c) /\ Candidate(c) /\ Locks ->
               /\ client' = [client EXCEPT ![c].at = "holding", ![c].row = row]
               /\ lock' = c
         [] OTHER -> Leaves(c, Overwrite(c, row), TRUE, Returned(c, row))
    /\ UNCHANGED <<world, row, others>>

(***************************************************************************)
(* TypeORM's second statement.  save() writes the values that differ from  *)
(* the row, by identity and without the predicate; the selected mutation   *)
(* tests the predicate again, and with nothing to write it is not sent.    *)
(***************************************************************************)
Save(c) ==
    /\ IsAt(c, "holding") /\ world.adapter = "typeorm" /\ lock \in {Free, c}
    /\ Leaves(c, Overwrite(c, client[c].row),
              Overwrite(c, client[c].row) # row, Returned(c, client[c].row))
    /\ UNCHANGED <<world, row, others>>

SelectedMutation(c) ==
    /\ IsAt(c, "holding") /\ world.adapter = "selected" /\ lock \in {Free, c}
    /\ CASE Call(c).op = "update" /\ Call(c).fields = {} ->
               Leaves(c, row, FALSE, Answer("written", client[c].row))
         [] ~(Call(c).op = "update" /\ Call(c).fields = {}) /\ Candidate(c) ->
               Leaves(c, Overwrite(c, row), TRUE, Returned(c, row))
         [] OTHER -> Answered(c, Missing) /\ lock' = Free
    /\ UNCHANGED <<world, row, others>>

(***************************************************************************)
(* INSERT waits for a transaction that is about to insert or remove the    *)
(* row, not for one that only locked it; ON CONFLICT waits for the lock.   *)
(***************************************************************************)
IsSettled == IF lock = Free THEN TRUE ELSE row # Gone /\ ~client[lock].wrote

Create(c) ==
    /\ IsAt(c, "waiting") /\ Call(c).op = "create" /\ IsSettled
    /\ IF row = Gone
       THEN Leaves(c, Call(c).values, TRUE, Answer("written", Call(c).values))
       ELSE Answered(c, Conflict) /\ UNCHANGED lock
    /\ UNCHANGED <<world, row, others>>

Upsert(c) ==
    /\ IsAt(c, "waiting") /\ Call(c).op = "upsert" /\ lock = Free
    /\ CASE row = Gone ->
               Leaves(c, Call(c).values, TRUE, Answer("written", Call(c).values))
         [] row # Gone /\ CannotSerialize(c) ->
               Answered(c, Failed) /\ UNCHANGED lock
         [] row # Gone /\ ~CannotSerialize(c) /\ Candidate(c) ->
               Leaves(c, Overwrite(c, row), TRUE, Returned(c, row))
         [] OTHER -> Answered(c, Missing) /\ UNCHANGED lock
    /\ UNCHANGED <<world, row, others>>

(***************************************************************************)
(* The transaction ends.  Statements that wait see a new version, or that  *)
(* theirs is gone, for good: a row inserted later is another one.          *)
(***************************************************************************)
Seen(d, after) ==
    CASE client[d].seen = "deleted" \/ after = Gone -> "deleted"
      [] OTHER -> "updated"
Witnessed(d, after, wrote) ==
    IF wrote /\ IsAt(d, "waiting")
    THEN [client[d] EXCEPT !.seen = Seen(d, after)] ELSE client[d]
Unlock(c) == lock' = IF lock = c THEN Free ELSE lock

Commit(c) ==
    /\ IsAt(c, "written")
    /\ row' = client[c].row
    /\ client' = [d \in Asking |->
                    IF d = c THEN [client[c] EXCEPT !.at = "answered"]
                    ELSE Witnessed(d, client[c].row, client[c].wrote)]
    /\ Unlock(c)
    /\ UNCHANGED <<world, others>>

\* A later hook throws, a deadline passes, or the connection is lost.
Rollback(c) ==
    /\ client[c].at \notin {"idle", "answered"}
    /\ Answered(c, Failed)
    /\ Unlock(c)
    /\ UNCHANGED <<world, row, others>>

OtherWrite ==
    /\ others < MaxOthers /\ lock = Free
    /\ others' = others + 1
    /\ row' \in world.rows \cup {Gone}
    /\ row' # row
    /\ client' = [d \in Asking |-> Witnessed(d, row', TRUE)]
    /\ UNCHANGED <<world, lock>>

Finished ==
    /\ \A c \in Asking : IsAt(c, "answered")
    /\ UNCHANGED vars

Next ==
    \/ \E c \in Asking :
          \/ Find(c) \/ Locate(c) \/ SendInsert(c)
          \/ Grant(c) \/ Save(c) \/ SelectedMutation(c)
          \/ Create(c) \/ Upsert(c)
          \/ Commit(c) \/ Rollback(c)
    \/ OtherWrite
    \/ Finished

Spec == Init /\ [][Next]_vars

(***************************************************************************)
(* Properties                                                              *)
(***************************************************************************)
\* A statement whose row is deleted while it waits has missed it, whatever
\* is inserted before it gets to know.
HasMissed(c) ==
    /\ IsAt(c, "waiting") /\ Call(c).op \in {"update", "delete"}
    /\ ~CannotSerialize(c) /\ IsDeleted(c)

OutcomeOf(c) ==
    CASE IsAt(c, "answered") -> client[c].answer
      [] HasMissed(c) -> Missing
      [] OTHER -> Pending

Promise == INSTANCE ConditionalStatement WITH
    calls <- world.calls,
    outcome <- [c \in Asking |-> OutcomeOf(c)]

(* Each call of update, delete, create and upsert happens at one moment:   *)
(* what it wrote and returned is its outcome on the row that was committed *)
(* then, by the meaning that the memory adapter gives its predicate; what  *)
(* it misses was, at some moment while it ran, not there or not selected.  *)
MutationsAreAtomic == Promise!Spec

(* Between the statement that passed the condition and the commit nobody   *)
(* can make the condition false: what a transaction leaves behind is, all  *)
(* that time, the outcome of its call on the committed row.                *)
WritesAreConditional ==
    \A c \in Asking : IsAt(c, "written") =>
        /\ lock = c
        /\ Writes(Call(c), row)
        /\ client[c].row = After(Call(c), row)
        /\ client[c].answer = Outcome(Call(c), row)

(* An adapter's condition on the row means what the memory adapter's does. *)
PredicatesAgree ==
    row # Gone => \A c \in Asking :
        Compiled(world.adapter, Call(c).predicate, row)
            <=> Selects(Call(c).predicate, row)
=============================================================================
