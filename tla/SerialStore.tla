---------------------------- MODULE SerialStore ----------------------------
(***************************************************************************)
(* What a transactional CRUD adapter promises the service layer: there is  *)
(* one committed table, at most one client at a time has a transaction     *)
(* open on it, that client works on a private copy, and the copy either    *)
(* replaces the committed table as a whole or disappears.  The constraints *)
(* it keeps are in what one edit may do to the table it is applied to: the *)
(* first table may be any.  Nothing here                                   *)
(* speaks of locks, promises or sessions.  MemoryAdapter implements this   *)
(* specification; it is the "serial" adapter of CrudLifecycle.             *)
(***************************************************************************)
CONSTANTS
    Clients,    \* whoever may open a transaction
    Nobody,     \* the owner when no transaction is open
    Tables,     \* what a table may hold
    Edits       \* pairs of a table and one that an edit may make of it

VARIABLES
    db,         \* the committed table
    owner,      \* the client whose transaction is open, or Nobody
    work        \* the owner's private copy; the committed table if no owner

storeVars == <<db, owner, work>>

TypeOK ==
    /\ db \in Tables
    /\ owner \in Clients \cup {Nobody}
    /\ work \in Tables

Init ==
    /\ db \in Tables
    /\ owner = Nobody
    /\ work = db

\* The private copy starts as the committed table.
Begin(c) ==
    /\ owner = Nobody
    /\ owner' = c
    /\ UNCHANGED <<db, work>>

\* One acknowledged create, update or delete of the open transaction.
Write(c) ==
    /\ owner = c
    /\ <<work, work'>> \in Edits
    /\ UNCHANGED <<db, owner>>

Commit(c) ==
    /\ owner = c
    /\ db' = work
    /\ owner' = Nobody
    /\ UNCHANGED work

Abort(c) ==
    /\ owner = c
    /\ work' = db
    /\ owner' = Nobody
    /\ UNCHANGED db

\* A single operation outside any transaction.
Direct ==
    /\ owner = Nobody
    /\ <<db, db'>> \in Edits
    /\ work' = db'
    /\ UNCHANGED owner

Next ==
    \/ \E c \in Clients : Begin(c) \/ Write(c) \/ Commit(c) \/ Abort(c)
    \/ Direct

Spec == Init /\ [][Next]_storeVars
=============================================================================
