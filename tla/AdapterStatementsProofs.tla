---------------------- MODULE AdapterStatementsProofs -----------------------
(***************************************************************************)
(* The conditional mutations of the adapters, for every set of clients,    *)
(* rows and calls: first under the one hypothesis that a compiled          *)
(* predicate means what the reference does (PredicatesAgree), which then   *)
(* is proved of every finite predicate.                                    *)
(*                                                                         *)
(* The inductive invariant ties the lock to the transactions: a client is  *)
(* past its condition exactly when it holds the row, so that the row it    *)
(* tested is the committed one until it commits.                           *)
(***************************************************************************)
EXTENDS AdapterStatements, CompiledPredicates, WellFoundedInduction, TLAPS

Places == {"idle", "found", "waiting", "holding", "written", "answered"}
Kinds == {"pending", "written", "missing", "conflict", "failed"}
Answers == [kind : Kinds, record : Rows \cup {Gone}]
Transactions ==
    [at : Places, seen : {"same", "updated", "deleted"},
     row : Rows \cup {Gone}, wrote : BOOLEAN, answer : Answers]

TypeOK ==
    /\ world \in Worlds
    /\ row \in Rows \cup {Gone}
    /\ lock \in Asking \cup {Free}
    /\ client \in [Asking -> Transactions]
    /\ others \in Nat

HolderIsPastItsCondition ==
    \A c \in Asking : lock = c <=> client[c].at \in {"holding", "written"}

HeldIsCurrent ==
    \A c \in Asking : IsAt(c, "holding") =>
        /\ Call(c).op \in {"update", "delete"}
        /\ Candidate(c) /\ client[c].row = row

Inv == /\ TypeOK /\ HolderIsPastItsCondition /\ HeldIsCurrent
       /\ WritesAreConditional

(* A call's world: what WorldsAssumption says of the client at hand.       *)
LEMMA CallTyped ==
    ASSUME TypeOK, NEW c \in Asking
    PROVE  /\ c \in Clients /\ c # Free
           /\ Call(c).values \in Rows
           /\ \A r \in Rows : Overwritten(Call(c), r) \in Rows
           /\ \A r \in Rows : Overwrite(c, r) \in Rows \cup {Gone}
           /\ \A r \in Rows : Returned(c, r) \in Answers
<1>1. /\ c \in Clients /\ Call(c).values \in Rows
      /\ \A r \in Rows : Overwritten(Call(c), r) \in Rows
  BY WorldsAssumption DEF TypeOK, Asking, Call
<1>2. c # Free
  BY <1>1, FreeAssumption
<1>3. ASSUME NEW r \in Rows PROVE Overwrite(c, r) \in Rows \cup {Gone}
  <2>1. CASE Call(c).op = "delete"
    BY <2>1 DEF Overwrite
  <2>2. CASE Call(c).op # "delete"
    BY <2>2, <1>1 DEF Overwrite
  <2> QED
    BY <2>1, <2>2
<1>4. ASSUME NEW r \in Rows PROVE Returned(c, r) \in Answers
  <2>1. CASE Call(c).op = "delete"
    BY <2>1 DEF Returned, Answer, Answers, Kinds
  <2>2. CASE Call(c).op # "delete"
    BY <2>2, <1>3 DEF Returned, Answer, Answers, Kinds
  <2> QED
    BY <2>1, <2>2
<1> QED
  BY <1>1, <1>2, <1>3, <1>4

(* The constant answers are answers.                                       *)
LEMMA AnswersTyped ==
    /\ Pending \in Answers /\ Missing \in Answers
    /\ Conflict \in Answers /\ Failed \in Answers
    /\ \A r \in Rows \cup {Gone} : Answer("written", r) \in Answers
  BY DEF Pending, Missing, Conflict, Failed, Answer, Answers, Kinds

(* What update and delete write on a row their condition selects.          *)
LEMMA OverwriteIsAfter ==
    ASSUME NEW c, row # Gone, Selects(Call(c).predicate, row),
           Call(c).op \in {"update", "delete"}
    PROVE  /\ Writes(Call(c), row)
           /\ Overwrite(c, row) = After(Call(c), row)
           /\ Returned(c, row) = Outcome(Call(c), row)
  BY DEF Writes, Inserts, Overwrites, Removes, Selected, After, Outcome,
         Overwrite, Returned, Answer

LEMMA UpsertIsAfter ==
    ASSUME NEW c, row # Gone, Selects(Call(c).predicate, row),
           Call(c).op = "upsert"
    PROVE  /\ Writes(Call(c), row)
           /\ Overwrite(c, row) = After(Call(c), row)
           /\ Returned(c, row) = Outcome(Call(c), row)
  BY DEF Writes, Inserts, Overwrites, Removes, Selected, After, Outcome,
         Overwrite, Returned, Answer

LEMMA InsertIsAfter ==
    ASSUME NEW c, row = Gone, Call(c).op \in {"create", "upsert"}
    PROVE  /\ Writes(Call(c), row)
           /\ Call(c).values = After(Call(c), row)
           /\ Answer("written", Call(c).values) = Outcome(Call(c), row)
  BY DEF Writes, Inserts, Overwrites, Removes, Selected, After, Outcome,
         Answer

(* Every transaction begins before its call.                               *)
LEMMA InitInv == Init => Inv
<1> SUFFICES ASSUME Init PROVE Inv
  OBVIOUS
<1>1. NotAsked \in Transactions
  BY AnswersTyped DEF NotAsked, Transactions, Places
<1>2. TypeOK
  BY <1>1, WorldsAssumption DEF Init, TypeOK, Asking
<1>3. \A c \in Asking : client[c].at = "idle" /\ lock # c
  BY <1>2, CallTyped DEF Init, NotAsked
<1> QED
  BY <1>2, <1>3 DEF Inv, HolderIsPastItsCondition, HeldIsCurrent,
                    WritesAreConditional, IsAt

(* A step of one client that leaves the row and the lock as they are and   *)
(* is not past its condition, before or after.                             *)
LEMMA OutsideInv ==
    ASSUME Inv, NEW c \in Asking, NEW tx \in Transactions,
           client' = [client EXCEPT ![c] = tx],
           UNCHANGED <<world, row, lock, others>>,
           client[c].at \notin {"holding", "written"},
           tx.at \notin {"holding", "written"}
    PROVE  Inv'
<1>1. Asking' = Asking /\ \A d : Call(d)' = Call(d)
  BY DEF Asking, Call
<1>2. TypeOK'
  BY <1>1 DEF Inv, TypeOK
<1>3. \A d \in Asking : d # c => client'[d] = client[d]
  BY DEF Inv, TypeOK
<1>4. client'[c] = tx
  BY DEF Inv, TypeOK
<1> QED
  BY <1>1, <1>2, <1>3, <1>4
     DEF Inv, HolderIsPastItsCondition, HeldIsCurrent, WritesAreConditional,
         IsAt, Candidate

(* Its two kinds: going to another place, and being answered.              *)
LEMMA GoesInv ==
    ASSUME Inv, NEW c \in Asking, NEW place \in {"found", "waiting"},
           Goes(c, place), UNCHANGED <<world, row, lock, others>>,
           client[c].at \notin {"holding", "written"}
    PROVE  Inv'
<1> DEFINE tx == [client[c] EXCEPT !.at = place]
<1>1. client[c] \in Transactions
  BY DEF Inv, TypeOK
<1>2. tx \in Transactions /\ tx.at = place
  BY <1>1 DEF Transactions, Places
<1>3. client' = [client EXCEPT ![c] = tx]
  BY DEF Goes
<1> HIDE DEF tx
<1> QED
  BY <1>2, <1>3, OutsideInv

LEMMA AnsweredTyped ==
    ASSUME NEW tx \in Transactions, NEW answer \in Answers
    PROVE  [tx EXCEPT !.at = "answered", !.answer = answer] \in Transactions
  BY DEF Transactions, Places

LEMMA AnsweredInv ==
    ASSUME Inv, NEW c \in Asking, NEW answer \in Answers,
           Answered(c, answer), UNCHANGED <<world, row, lock, others>>,
           client[c].at \notin {"holding", "written"}
    PROVE  Inv'
<1> DEFINE tx == [client[c] EXCEPT !.at = "answered", !.answer = answer]
<1>1. client[c] \in Transactions
  BY DEF Inv, TypeOK
<1>2. tx \in Transactions /\ tx.at = "answered"
  BY <1>1, AnsweredTyped DEF Transactions
<1>3. client' = [client EXCEPT ![c] = tx]
  BY DEF Answered
<1> HIDE DEF tx
<1> QED
  BY <1>2, <1>3, OutsideInv

(* A write of a row that nobody else holds, with its outcome.              *)
LEMMA LeavesInv ==
    ASSUME Inv, NEW c \in Asking, NEW after \in Rows \cup {Gone},
           NEW wrote \in BOOLEAN, NEW answer \in Answers,
           Leaves(c, after, wrote, answer), lock \in {Free, c},
           UNCHANGED <<world, row, others>>,
           Writes(Call(c), row), after = After(Call(c), row),
           answer = Outcome(Call(c), row)
    PROVE  Inv'
<1> DEFINE tx == [client[c] EXCEPT !.at = "written", !.row = after,
                                   !.wrote = wrote, !.answer = answer]
<1>1. client[c] \in Transactions
  BY DEF Inv, TypeOK
<1>2. /\ tx \in Transactions /\ tx.at = "written"
      /\ tx.row = after /\ tx.answer = answer
  BY <1>1 DEF Transactions, Places
<1>3. client' = [client EXCEPT ![c] = tx]
  BY DEF Leaves
<1> HIDE DEF tx
<1>4. /\ Asking' = Asking /\ \A d : Call(d)' = Call(d)
      /\ lock' = c
  BY DEF Asking, Call, Leaves
<1>5. TypeOK'
  BY <1>2, <1>3, <1>4 DEF Inv, TypeOK
<1>6. \A d \in Asking : d # c => client'[d] = client[d]
  BY <1>3 DEF Inv, TypeOK
<1>7. client'[c] = tx
  BY <1>3 DEF Inv, TypeOK
<1>8. \A d \in Asking : d # c =>
         client'[d].at \notin {"holding", "written"} /\ lock' # d
  BY <1>4, <1>6, CallTyped DEF Inv, HolderIsPastItsCondition
<1>9. HolderIsPastItsCondition'
  BY <1>2, <1>4, <1>7, <1>8 DEF HolderIsPastItsCondition
<1>10. HeldIsCurrent'
  BY <1>2, <1>4, <1>7, <1>8 DEF HeldIsCurrent, IsAt
<1>11. WritesAreConditional'
  BY <1>2, <1>4, <1>7, <1>8 DEF WritesAreConditional, IsAt
<1> QED
  BY <1>5, <1>9, <1>10, <1>11 DEF Inv

(* TypeORM's first statement: the row it locks is the one it tested.       *)
LEMMA HoldsInv ==
    ASSUME Inv, NEW c \in Asking, lock = Free,
           client' = [client EXCEPT ![c].at = "holding", ![c].row = row],
           lock' = c, UNCHANGED <<world, row, others>>,
           Call(c).op \in {"update", "delete"}, Candidate(c)
    PROVE  Inv'
<1> DEFINE tx == [client[c] EXCEPT !.at = "holding", !.row = row]
<1>1. client[c] \in Transactions /\ row \in Rows \cup {Gone}
  BY DEF Inv, TypeOK
<1>2. tx \in Transactions /\ tx.at = "holding" /\ tx.row = row
  BY <1>1 DEF Transactions, Places
<1>3. client' = [client EXCEPT ![c] = tx]
  OBVIOUS
<1> HIDE DEF tx
<1>4. Asking' = Asking /\ \A d : Call(d)' = Call(d)
  BY DEF Asking, Call
<1>5. TypeOK'
  BY <1>2, <1>3, <1>4 DEF Inv, TypeOK
<1>6. \A d \in Asking : d # c => client'[d] = client[d]
  BY <1>3 DEF Inv, TypeOK
<1>7. client'[c] = tx
  BY <1>3 DEF Inv, TypeOK
<1>8. \A d \in Asking : d # c =>
         client'[d].at \notin {"holding", "written"} /\ lock' # d
  BY <1>6, CallTyped DEF Inv, HolderIsPastItsCondition
<1>9. HolderIsPastItsCondition'
  BY <1>2, <1>4, <1>7, <1>8 DEF HolderIsPastItsCondition
<1>10. HeldIsCurrent'
  BY <1>2, <1>4, <1>7, <1>8 DEF HeldIsCurrent, IsAt, Candidate
<1>11. WritesAreConditional'
  BY <1>2, <1>4, <1>7, <1>8 DEF WritesAreConditional, IsAt
<1> QED
  BY <1>5, <1>9, <1>10, <1>11 DEF Inv

(* A transaction that ends without a trace frees the row, if it held it.   *)
LEMMA EndsInv ==
    ASSUME Inv, NEW c \in Asking, NEW answer \in Answers,
           Answered(c, answer), Unlock(c), UNCHANGED <<world, row, others>>
    PROVE  Inv'
<1> DEFINE tx == [client[c] EXCEPT !.at = "answered", !.answer = answer]
<1>1. client[c] \in Transactions
  BY DEF Inv, TypeOK
<1>2. tx \in Transactions /\ tx.at = "answered"
  BY <1>1, AnsweredTyped DEF Transactions
<1>3. client' = [client EXCEPT ![c] = tx]
  BY DEF Answered
<1> HIDE DEF tx
<1>4. Asking' = Asking /\ \A d : Call(d)' = Call(d)
  BY DEF Asking, Call
<1>5. lock' \in Asking \cup {Free} /\ lock' # c
      /\ \A d \in Asking : d # c => (lock' = d <=> lock = d)
  BY CallTyped DEF Unlock, Inv, TypeOK
<1>6. TypeOK'
  BY <1>2, <1>3, <1>4, <1>5 DEF Inv, TypeOK
<1>7. \A d \in Asking : d # c => client'[d] = client[d]
  BY <1>3 DEF Inv, TypeOK
<1>8. client'[c] = tx
  BY <1>3 DEF Inv, TypeOK
<1> QED
  BY <1>2, <1>4, <1>5, <1>6, <1>7, <1>8
     DEF Inv, HolderIsPastItsCondition, HeldIsCurrent, WritesAreConditional,
         IsAt, Candidate

(* What a commit changes for those that wait.                              *)
LEMMA WitnessedTyped ==
    ASSUME TypeOK, NEW d \in Asking, NEW after, NEW wrote
    PROVE  /\ Witnessed(d, after, wrote) \in Transactions
           /\ Witnessed(d, after, wrote).at = client[d].at
           /\ Witnessed(d, after, wrote).row = client[d].row
           /\ Witnessed(d, after, wrote).answer = client[d].answer
<1>1. client[d] \in Transactions
  BY DEF TypeOK
<1>2. Seen(d, after) \in {"same", "updated", "deleted"}
  BY DEF Seen
<1> QED
  BY <1>1, <1>2 DEF Witnessed, Transactions

(* A commit: nobody else had tested the row that it replaces.              *)
LEMMA CommitInv == ASSUME Inv, NEW c \in Asking, Commit(c) PROVE Inv'
<1> DEFINE tx == [client[c] EXCEPT !.at = "answered"]
<1>1. client[c] \in Transactions
  BY DEF Inv, TypeOK
<1>2. tx \in Transactions /\ tx.at = "answered"
  BY <1>1 DEF Transactions, Places
<1>3. Asking' = Asking /\ \A d : Call(d)' = Call(d)
  BY DEF Asking, Call, Commit
<1>4. /\ \A d \in Asking : d # c =>
             client'[d] = Witnessed(d, client[c].row, client[c].wrote)
      /\ client'[c] = tx
  BY DEF Commit
<1>5. lock = c /\ lock' = Free
  BY DEF Commit, Unlock, Inv, HolderIsPastItsCondition, IsAt
<1>6. client' \in [Asking -> Transactions]
  BY <1>1, <1>2, <1>4, WitnessedTyped DEF Commit, Inv
<1>7. row' \in Rows \cup {Gone}
  BY <1>1 DEF Commit, Transactions
<1>8. TypeOK'
  BY <1>3, <1>5, <1>6, <1>7 DEF TypeOK, Inv, Commit
<1>9. \A d \in Asking : lock' # d /\ client'[d].at \notin {"holding", "written"}
  <2> SUFFICES ASSUME NEW d \in Asking
               PROVE  lock' # d /\ client'[d].at \notin {"holding", "written"}
    OBVIOUS
  <2>1. lock' # d
    BY <1>5, CallTyped DEF Inv
  <2>2. CASE d = c
    BY <2>1, <2>2, <1>2, <1>4
  <2>3. CASE d # c
    BY <2>1, <2>3, <1>4, <1>5, WitnessedTyped
       DEF Inv, HolderIsPastItsCondition
  <2> QED
    BY <2>2, <2>3
<1> QED
  BY <1>3, <1>8, <1>9
     DEF Inv, HolderIsPastItsCondition, HeldIsCurrent, WritesAreConditional, IsAt

(* Other programs write rows that no transaction holds.                    *)
LEMMA OtherWriteInv == ASSUME Inv, OtherWrite PROVE Inv'
<1>1. Asking' = Asking /\ \A d : Call(d)' = Call(d)
  BY DEF Asking, Call, OtherWrite
<1>2. \A d \in Asking : client'[d] = Witnessed(d, row', TRUE)
  BY DEF OtherWrite
<1>3. client' \in [Asking -> Transactions]
  BY WitnessedTyped DEF OtherWrite, Inv
<1>4. row' \in Rows \cup {Gone}
  BY WorldsAssumption DEF OtherWrite, Inv, TypeOK
<1>5. TypeOK'
  <2>1. others' \in Nat
    BY DEF OtherWrite, Inv, TypeOK
  <2>2. world' \in Worlds /\ lock' \in Asking' \cup {Free}
    BY <1>1 DEF OtherWrite, Inv, TypeOK
  <2>3. client' \in [Asking' -> Transactions]
    BY <1>1, <1>3
  <2> QED
    BY <1>4, <2>1, <2>2, <2>3 DEF TypeOK
<1>6. ASSUME NEW d \in Asking
      PROVE  lock' # d /\ client'[d].at \notin {"holding", "written"}
  <2>1. lock = Free /\ lock' = Free /\ lock' # d /\ lock # d
    BY CallTyped DEF OtherWrite, Inv
  <2>2. client'[d].at = client[d].at
    BY <1>2, WitnessedTyped DEF Inv
  <2> QED
    BY <2>1, <2>2 DEF Inv, HolderIsPastItsCondition
<1> QED
  BY <1>1, <1>5, <1>6
     DEF Inv, HolderIsPastItsCondition, HeldIsCurrent, WritesAreConditional, IsAt

(***************************************************************************)
(* The steps of a client.                                                  *)
(***************************************************************************)
LEMMA FindInv == ASSUME Inv, NEW c \in Asking, Find(c) PROVE Inv'
<1>1. client[c].at \notin {"holding", "written"} /\ UNCHANGED <<world, row, lock, others>>
  BY DEF Find, IsAt
<1>2. CASE Goes(c, "found")
  BY <1>1, <1>2, GoesInv
<1>3. CASE Answered(c, Missing)
  BY <1>1, <1>3, AnsweredInv, AnswersTyped
<1> QED
  BY <1>2, <1>3 DEF Find

LEMMA LocateInv == ASSUME Inv, NEW c \in Asking, Locate(c) PROVE Inv'
<1>1. client[c].at \notin {"holding", "written"} /\ UNCHANGED <<world, row, lock, others>>
  BY DEF Locate, IsAt
<1>2. CASE Goes(c, "waiting")
  BY <1>1, <1>2, GoesInv
<1>3. CASE Answered(c, Missing)
  BY <1>1, <1>3, AnsweredInv, AnswersTyped
<1> QED
  BY <1>2, <1>3 DEF Locate

LEMMA SendInsertInv == ASSUME Inv, NEW c \in Asking, SendInsert(c) PROVE Inv'
  BY GoesInv DEF SendInsert, IsAt

(* The row a candidate leaves, with the types of what it leaves.           *)
LEMMA CandidateLeaves ==
    ASSUME Inv, PredicatesAgree, NEW c \in Asking, Candidate(c),
           Call(c).op \in {"update", "delete", "upsert"}
    PROVE  /\ row # Gone /\ Writes(Call(c), row)
           /\ Overwrite(c, row) = After(Call(c), row)
           /\ Returned(c, row) = Outcome(Call(c), row)
           /\ Overwrite(c, row) \in Rows \cup {Gone}
           /\ Returned(c, row) \in Answers
<1>1. row # Gone /\ row \in Rows /\ Selects(Call(c).predicate, row)
  BY DEF Inv, TypeOK, Candidate, PredicatesAgree
<1>2. /\ Overwrite(c, row) \in Rows \cup {Gone}
      /\ Returned(c, row) \in Answers
  BY <1>1, CallTyped DEF Inv
<1> QED
  BY <1>1, <1>2, OverwriteIsAfter, UpsertIsAfter

LEMMA GrantInv ==
    ASSUME Inv, PredicatesAgree, NEW c \in Asking, Grant(c) PROVE Inv'
<1>1. /\ client[c].at \notin {"holding", "written"} /\ lock = Free
      /\ UNCHANGED <<world, row, others>>
      /\ Call(c).op \in {"update", "delete"}
  BY DEF Grant, IsAt
<1>2. CASE Answered(c, Failed) /\ UNCHANGED lock
  BY <1>1, <1>2, AnsweredInv, AnswersTyped
<1>3. CASE Answered(c, Missing) /\ UNCHANGED lock
  BY <1>1, <1>3, AnsweredInv, AnswersTyped
<1>4. CASE /\ Candidate(c)
           /\ client' = [client EXCEPT ![c].at = "holding", ![c].row = row]
           /\ lock' = c
  BY <1>1, <1>4, HoldsInv
<1>5. CASE Candidate(c) /\ Leaves(c, Overwrite(c, row), TRUE, Returned(c, row))
  BY <1>1, <1>5, CandidateLeaves, LeavesInv
<1> QED
  BY <1>2, <1>3, <1>4, <1>5 DEF Grant

LEMMA SaveInv ==
    ASSUME Inv, PredicatesAgree, NEW c \in Asking, Save(c) PROVE Inv'
<1>1. /\ client[c].row = row /\ Candidate(c)
      /\ Call(c).op \in {"update", "delete"}
  BY DEF Save, Inv, HeldIsCurrent
<1>2. /\ Leaves(c, Overwrite(c, row), Overwrite(c, row) # row, Returned(c, row))
      /\ lock \in {Free, c} /\ UNCHANGED <<world, row, others>>
  BY <1>1 DEF Save
<1>3. (Overwrite(c, row) # row) \in BOOLEAN
  OBVIOUS
<1> QED
  BY <1>1, <1>2, <1>3, CandidateLeaves, LeavesInv

\* An update that sets nothing writes the row that is there.
LEMMA NothingToWrite ==
    ASSUME Inv, PredicatesAgree, NEW c \in Asking, Candidate(c),
           Call(c).op = "update", Call(c).fields = {}
    PROVE  /\ row = After(Call(c), row)
           /\ Answer("written", row) = Outcome(Call(c), row)
<1>1. Selects(Call(c).predicate, row) /\ row # Gone /\ row \in Rows
  BY DEF Candidate, PredicatesAgree, Inv, TypeOK
<1>2. Overwritten(Call(c), row) = [f \in DOMAIN row |-> row[f]]
  BY DEF Overwritten
<1>3. Overwritten(Call(c), row) = row
  BY <1>1, <1>2, RowsAssumption
<1> QED
  BY <1>1, <1>3 DEF After, Outcome, Overwrites, Inserts, Removes, Selected

LEMMA SelectedMutationInv ==
    ASSUME Inv, PredicatesAgree, NEW c \in Asking, SelectedMutation(c)
    PROVE  Inv'
<1>1. /\ client[c].row = row /\ Candidate(c)
      /\ Call(c).op \in {"update", "delete"}
  BY DEF SelectedMutation, Inv, HeldIsCurrent
<1>2. /\ lock \in {Free, c} /\ UNCHANGED <<world, row, others>>
      /\ row \in Rows
  BY <1>1 DEF SelectedMutation, Candidate, Inv, TypeOK
<1>3. CASE /\ Call(c).op = "update" /\ Call(c).fields = {}
           /\ Leaves(c, row, FALSE, Answer("written", client[c].row))
  <2>1. /\ Leaves(c, row, FALSE, Answer("written", row))
        /\ row = After(Call(c), row) /\ Writes(Call(c), row)
        /\ Answer("written", row) = Outcome(Call(c), row)
        /\ Answer("written", row) \in Answers
    BY <1>1, <1>2, <1>3, NothingToWrite, CandidateLeaves, AnswersTyped
  <2> QED
    BY <1>2, <2>1, LeavesInv
<1>4. CASE Leaves(c, Overwrite(c, row), TRUE, Returned(c, row))
  BY <1>1, <1>2, <1>4, CandidateLeaves, LeavesInv
<1> QED
  BY <1>1, <1>3, <1>4 DEF SelectedMutation

LEMMA CreateInv == ASSUME Inv, NEW c \in Asking, Create(c) PROVE Inv'
<1>1. /\ client[c].at \notin {"holding", "written"}
      /\ UNCHANGED <<world, row, others>> /\ Call(c).op = "create"
      /\ IsSettled
  BY DEF Create, IsAt
<1>2. CASE Answered(c, Conflict) /\ UNCHANGED lock
  BY <1>1, <1>2, AnsweredInv, AnswersTyped
<1>3. CASE /\ row = Gone
           /\ Leaves(c, Call(c).values, TRUE, Answer("written", Call(c).values))
  <2>1. lock = Free
    BY <1>1, <1>3 DEF IsSettled
  <2>2. /\ Call(c).values \in Rows \cup {Gone}
        /\ Answer("written", Call(c).values) \in Answers
    BY CallTyped, AnswersTyped DEF Inv
  <2> QED
    BY <1>1, <1>3, <2>1, <2>2, InsertIsAfter, LeavesInv
<1> QED
  BY <1>2, <1>3 DEF Create

LEMMA UpsertInv ==
    ASSUME Inv, PredicatesAgree, NEW c \in Asking, Upsert(c) PROVE Inv'
<1>1. /\ client[c].at \notin {"holding", "written"} /\ lock = Free
      /\ UNCHANGED <<world, row, others>> /\ Call(c).op = "upsert"
  BY DEF Upsert, IsAt
<1>2. CASE Answered(c, Failed) /\ UNCHANGED lock
  BY <1>1, <1>2, AnsweredInv, AnswersTyped
<1>3. CASE Answered(c, Missing) /\ UNCHANGED lock
  BY <1>1, <1>3, AnsweredInv, AnswersTyped
<1>4. CASE /\ row = Gone
           /\ Leaves(c, Call(c).values, TRUE, Answer("written", Call(c).values))
  <2>1. /\ Call(c).values \in Rows \cup {Gone}
        /\ Answer("written", Call(c).values) \in Answers
    BY CallTyped, AnswersTyped DEF Inv
  <2> QED
    BY <1>1, <1>4, <2>1, InsertIsAfter, LeavesInv
<1>5. CASE Candidate(c) /\ Leaves(c, Overwrite(c, row), TRUE, Returned(c, row))
  BY <1>1, <1>5, CandidateLeaves, LeavesInv
<1> QED
  BY <1>2, <1>3, <1>4, <1>5 DEF Upsert

LEMMA RollbackInv == ASSUME Inv, NEW c \in Asking, Rollback(c) PROVE Inv'
  BY EndsInv, AnswersTyped DEF Rollback

LEMMA NextInv == ASSUME Inv, PredicatesAgree, [Next]_vars PROVE Inv'
<1>1. ASSUME NEW c \in Asking, Find(c) PROVE Inv'
  BY <1>1, FindInv
<1>2. ASSUME NEW c \in Asking, Locate(c) PROVE Inv'
  BY <1>2, LocateInv
<1>3. ASSUME NEW c \in Asking, SendInsert(c) PROVE Inv'
  BY <1>3, SendInsertInv
<1>4. ASSUME NEW c \in Asking, Grant(c) PROVE Inv'
  BY <1>4, GrantInv
<1>5. ASSUME NEW c \in Asking, Save(c) PROVE Inv'
  BY <1>5, SaveInv
<1>6. ASSUME NEW c \in Asking, SelectedMutation(c) PROVE Inv'
  BY <1>6, SelectedMutationInv
<1>7. ASSUME NEW c \in Asking, Create(c) PROVE Inv'
  BY <1>7, CreateInv
<1>8. ASSUME NEW c \in Asking, Upsert(c) PROVE Inv'
  BY <1>8, UpsertInv
<1>9. ASSUME NEW c \in Asking, Commit(c) PROVE Inv'
  BY <1>9, CommitInv
<1>10. ASSUME NEW c \in Asking, Rollback(c) PROVE Inv'
  BY <1>10, RollbackInv
<1>11. CASE OtherWrite
  BY <1>11, OtherWriteInv
<1>12. CASE UNCHANGED vars
  BY <1>12 DEF vars, Inv, TypeOK, HolderIsPastItsCondition, HeldIsCurrent,
               WritesAreConditional, Asking, Call, IsAt, Candidate
<1> QED
  BY <1>1, <1>2, <1>3, <1>4, <1>5, <1>6, <1>7, <1>8, <1>9, <1>10, <1>11, <1>12
     DEF Next, Finished

(* Where compiled predicates mean what the reference does, a transaction   *)
(* of any adapter leaves behind, from its statement to its commit, the     *)
(* outcome of its call on the committed row: nobody can make the condition *)
(* it passed false before it commits.                                      *)
THEOREM Conditional == Spec /\ []PredicatesAgree => []WritesAreConditional
<1>1. Init => Inv
  BY InitInv
<1>2. Inv /\ PredicatesAgree /\ [Next]_vars => Inv'
  BY NextInv
<1>3. Inv => WritesAreConditional
  BY DEF Inv
<1> QED
  BY <1>1, <1>2, <1>3, PTL DEF Spec

(***************************************************************************)
(* The refinement.  Of a client that has not sent its statement nothing    *)
(* can have been deleted.                                                  *)
(***************************************************************************)
SeesWhatItSent ==
    \A c \in Asking : client[c].at \in {"idle", "found"} => client[c].seen = "same"

LEMMA SeesInit == Init => SeesWhatItSent
  BY DEF Init, SeesWhatItSent, NotAsked

\* A step of one client leaves the other transactions alone, keeps what its
\* own has seen, and only findFirst leads to "found".
OwnStep(c) ==
    \/ Find(c) \/ Locate(c) \/ SendInsert(c) \/ Grant(c) \/ Save(c)
    \/ SelectedMutation(c) \/ Create(c) \/ Upsert(c) \/ Rollback(c)

LEMMA OwnStepIsLocal ==
    ASSUME Inv, NEW c \in Asking, OwnStep(c)
    PROVE  /\ world' = world /\ row' = row /\ others' = others
           /\ client' \in [Asking -> Transactions] =>
                  client'[c].seen = client[c].seen
           /\ \A d \in Asking : d # c => client'[d] = client[d]
           /\ client'[c].at \in {"idle", "found"} => client[c].at = "idle"
<1>1. client \in [Asking -> Transactions] /\ client[c].at \in Places
  BY DEF Inv, TypeOK, Transactions
<1>2. CASE Find(c)
  BY <1>1, <1>2 DEF Find, Goes, Answered, Transactions, IsAt
<1>3. CASE Locate(c)
  BY <1>1, <1>3 DEF Locate, Goes, Answered, Transactions
<1>4. CASE SendInsert(c)
  BY <1>1, <1>4 DEF SendInsert, Goes, Transactions
<1>5. CASE Grant(c)
  BY <1>1, <1>5 DEF Grant, Leaves, Answered, Transactions
<1>6. CASE Save(c)
  BY <1>1, <1>6 DEF Save, Leaves, Transactions
<1>7. CASE SelectedMutation(c)
  BY <1>1, <1>7 DEF SelectedMutation, Leaves, Answered, Transactions
<1>8. CASE Create(c)
  BY <1>1, <1>8 DEF Create, Leaves, Answered, Transactions
<1>9. CASE Upsert(c)
  BY <1>1, <1>9 DEF Upsert, Leaves, Answered, Transactions
<1>10. CASE Rollback(c)
  BY <1>1, <1>10 DEF Rollback, Answered, Transactions
<1> QED
  BY <1>2, <1>3, <1>4, <1>5, <1>6, <1>7, <1>8, <1>9, <1>10 DEF OwnStep

LEMMA WitnessedSeen ==
    ASSUME Inv, SeesWhatItSent, NEW d \in Asking, NEW after, NEW wrote,
           client'[d] = Witnessed(d, after, wrote),
           client'[d].at \in {"idle", "found"}
    PROVE  client'[d].seen = "same"
  BY DEF Inv, TypeOK, Transactions, Witnessed, IsAt, SeesWhatItSent

LEMMA SeesNext ==
    ASSUME Inv, Inv', SeesWhatItSent, [Next]_vars PROVE SeesWhatItSent'
<1>1. Asking' = Asking
  BY DEF Asking, Next, vars, Find, Locate, SendInsert, Grant, Save,
         SelectedMutation, Create, Upsert, Commit, Rollback, OtherWrite, Finished
<1> SUFFICES ASSUME NEW d \in Asking, client'[d].at \in {"idle", "found"}
             PROVE  client'[d].seen = "same"
  BY <1>1 DEF SeesWhatItSent
<1>2. ASSUME NEW c \in Asking, OwnStep(c) PROVE client'[d].seen = "same"
  BY <1>1, <1>2, OwnStepIsLocal DEF SeesWhatItSent, Inv, TypeOK
<1>3. ASSUME NEW c \in Asking, Commit(c) PROVE client'[d].seen = "same"
  <2>1. CASE d = c
    BY <1>3, <2>1 DEF Commit, Inv, TypeOK, Transactions
  <2>2. CASE d # c
    BY <1>3, <2>2, WitnessedSeen DEF Commit
  <2> QED
    BY <2>1, <2>2
<1>4. CASE OtherWrite
  BY <1>4, WitnessedSeen DEF OtherWrite
<1>5. CASE UNCHANGED vars
  BY <1>5 DEF vars, SeesWhatItSent
<1> QED
  BY <1>2, <1>3, <1>4, <1>5 DEF Next, Finished, OwnStep

\* How the outcome of d may change beside the step of another (MayBeRefused
\* of the promise).
IsRefused(d) ==
    \/ OutcomeOf(d)' = OutcomeOf(d)
    \/ /\ OutcomeOf(d) = Pending /\ ~Writes(Call(d), row')
       /\ OutcomeOf(d)' = Outcome(Call(d), row')
    \/ OutcomeOf(d) \in {Pending, Missing} /\ OutcomeOf(d)' = Failed

LEMMA SameOutcome ==
    ASSUME world' = world, NEW d, client'[d] = client[d]
    PROVE  OutcomeOf(d)' = OutcomeOf(d)
  BY DEF OutcomeOf, IsAt, HasMissed, CannotSerialize, IsDeleted, Call

LEMMA RefusedMaps ==
    ASSUME world' = world, NEW d \in Asking, IsRefused(d)
    PROVE  Promise!MayBeRefused(d)
<1>1. Asking' = Asking
  BY DEF Asking
<1> QED
  BY <1>1
     DEF Promise!MayBeRefused, IsRefused, Call, Promise!Pending, Pending,
         Promise!Missing, Missing, Promise!Failed, Failed, Promise!Answer,
         Answer, Promise!Outcome, Outcome, Promise!Writes, Writes,
         Promise!Inserts, Inserts, Promise!Overwrites, Overwrites,
         Promise!Removes, Removes, Promise!Selected, Selected,
         Promise!After, After, Promise!Overwritten, Overwritten,
         Promise!Conflict, Conflict

LEMMA RefuseMaps ==
    ASSUME UNCHANGED <<world, row, others>>, \A d \in Asking : IsRefused(d)
    PROVE  Promise!Next
<1>1. \A d \in Asking : Promise!MayBeRefused(d)
  BY RefusedMaps
<1>2. Promise!Refuse
  BY <1>1 DEF Promise!Refuse, Promise!Asking, Asking
<1> QED
  BY <1>2 DEF Promise!Next

(* A call that finds no candidate misses, and one that inserts a row that  *)
(* is there conflicts.                                                     *)
LEMMA NoCandidateMisses ==
    ASSUME Inv, PredicatesAgree, NEW c \in Asking, ~Candidate(c),
           Call(c).op \in {"update", "delete"} \/ (Call(c).op = "upsert" /\ row # Gone)
    PROVE  ~Writes(Call(c), row) /\ Outcome(Call(c), row) = Missing
  BY DEF PredicatesAgree, Candidate, Writes, Inserts, Overwrites, Removes,
         Selected, Outcome

LEMMA ExistingConflicts ==
    ASSUME NEW c, Call(c).op = "create", row # Gone
    PROVE  ~Writes(Call(c), row) /\ Outcome(Call(c), row) = Conflict
  BY DEF Writes, Inserts, Overwrites, Removes, Outcome

\* The outcome before and after a step, by the places it goes between.
LEMMA PendingBefore ==
    ASSUME SeesWhatItSent, NEW c \in Asking, client[c].at # "answered",
           \/ client[c].at # "waiting" \/ CannotSerialize(c)
           \/ ~IsDeleted(c) \/ Call(c).op \notin {"update", "delete"}
    PROVE  OutcomeOf(c) = Pending
  BY DEF OutcomeOf, IsAt, HasMissed

LEMMA PendingAfter ==
    ASSUME NEW c \in Asking, client'[c].at \notin {"answered", "waiting"}
    PROVE  OutcomeOf(c)' = Pending
  BY DEF OutcomeOf, IsAt, HasMissed, Pending, Answer

LEMMA AnsweredAfter ==
    ASSUME Inv, NEW c \in Asking, NEW answer, Answered(c, answer)
    PROVE  OutcomeOf(c)' = answer
<1>1. client[c] \in Transactions /\ client \in [Asking -> Transactions]
  BY DEF Inv, TypeOK
<1>2. client'[c] = [client[c] EXCEPT !.at = "answered", !.answer = answer]
  BY <1>1 DEF Answered
<1>3. client'[c].at = "answered" /\ client'[c].answer = answer
  BY <1>1, <1>2 DEF Transactions
<1> QED
  BY <1>3 DEF OutcomeOf, IsAt, HasMissed

LEMMA WaitsAfter ==
    ASSUME Inv, SeesWhatItSent, NEW c \in Asking, Goes(c, "waiting"),
           client[c].at \in {"idle", "found"}
    PROVE  OutcomeOf(c)' = Pending
<1>1. client[c] \in Transactions /\ client \in [Asking -> Transactions]
  BY DEF Inv, TypeOK
<1>2. client'[c] = [client[c] EXCEPT !.at = "waiting"]
  BY <1>1 DEF Goes
<1>3. client'[c].at = "waiting" /\ client'[c].seen = "same"
  BY <1>1, <1>2 DEF Transactions, SeesWhatItSent
<1> QED
  BY <1>3 DEF OutcomeOf, IsAt, HasMissed, IsDeleted, Pending, Answer

LEMMA LeavesAfter ==
    ASSUME Inv, NEW c \in Asking, NEW after, NEW wrote, NEW answer,
           Leaves(c, after, wrote, answer)
    PROVE  OutcomeOf(c)' = Pending
<1>1. client[c] \in Transactions /\ client \in [Asking -> Transactions]
  BY DEF Inv, TypeOK
<1>2. client'[c].at = "written"
  BY <1>1 DEF Leaves, Transactions
<1> QED
  BY <1>2, PendingAfter

LEMMA OwnStepRefuses ==
    ASSUME Inv, PredicatesAgree, SeesWhatItSent, NEW c \in Asking, OwnStep(c)
    PROVE  IsRefused(c)
<1>1. /\ client[c] \in Transactions /\ client \in [Asking -> Transactions]
      /\ row' = row
  BY OwnStepIsLocal DEF Inv, TypeOK
<1>2. CASE Find(c)
  <2>1. OutcomeOf(c) = Pending
    BY <1>2, PendingBefore DEF Find, IsAt
  <2>2. CASE Goes(c, "found")
    <3>1. client'[c].at = "found"
      BY <1>1, <2>2 DEF Goes, Transactions
    <3> QED
      BY <2>1, <3>1, PendingAfter DEF IsRefused
  <2>3. CASE ~Candidate(c) /\ Answered(c, Missing)
    BY <1>1, <1>2, <2>1, <2>3, AnsweredAfter, NoCandidateMisses
       DEF Find, IsRefused
  <2> QED
    BY <1>2, <2>2, <2>3 DEF Find
<1>3. CASE Locate(c)
  <2>1. OutcomeOf(c) = Pending /\ client[c].at \in {"idle", "found"}
    BY <1>3, PendingBefore DEF Locate, IsAt
  <2>2. CASE Goes(c, "waiting")
    BY <2>1, <2>2, WaitsAfter DEF IsRefused
  <2>3. CASE ~Candidate(c) /\ Answered(c, Missing)
    BY <1>1, <1>3, <2>1, <2>3, AnsweredAfter, NoCandidateMisses
       DEF Locate, IsRefused
  <2> QED
    BY <1>3, <2>2, <2>3 DEF Locate
<1>4. CASE SendInsert(c)
  <2>1. /\ OutcomeOf(c) = Pending /\ client[c].at \in {"idle", "found"}
        /\ Goes(c, "waiting")
    BY <1>4, PendingBefore DEF SendInsert, IsAt
  <2> QED
    BY <2>1, WaitsAfter DEF IsRefused
<1>5. CASE Grant(c)
  <2>1. client[c].at = "waiting" /\ Call(c).op \in {"update", "delete"}
    BY <1>5 DEF Grant, IsAt
  <2>2. CASE CannotSerialize(c) /\ Answered(c, Failed)
    BY <2>1, <2>2, PendingBefore, AnsweredAfter DEF IsRefused
  <2>3. CASE ~CannotSerialize(c) /\ IsDeleted(c) /\ Answered(c, Missing)
    <3>1. OutcomeOf(c) = Missing
      BY <2>1, <2>3 DEF OutcomeOf, IsAt, HasMissed
    <3> QED
      BY <2>3, <3>1, AnsweredAfter DEF IsRefused
  <2>4. CASE ~IsDeleted(c) /\ ~Candidate(c) /\ Answered(c, Missing)
    BY <1>1, <2>1, <2>4, PendingBefore, AnsweredAfter, NoCandidateMisses
       DEF IsRefused
  <2>5. CASE /\ ~IsDeleted(c)
             /\ client' = [client EXCEPT ![c].at = "holding", ![c].row = row]
    <3>1. client'[c].at = "holding"
      BY <1>1, <2>5 DEF Transactions
    <3> QED
      BY <2>1, <2>5, <3>1, PendingBefore, PendingAfter DEF IsRefused
  <2>6. CASE /\ ~IsDeleted(c)
             /\ Leaves(c, Overwrite(c, row), TRUE, Returned(c, row))
    BY <2>1, <2>6, PendingBefore, LeavesAfter DEF IsRefused
  <2> QED
    BY <1>5, <2>2, <2>3, <2>4, <2>5, <2>6 DEF Grant
<1>6. CASE Save(c)
  <2>1. OutcomeOf(c) = Pending
    BY <1>6, PendingBefore DEF Save, IsAt
  <2> QED
    BY <1>6, <2>1, LeavesAfter DEF Save, IsRefused
<1>7. CASE SelectedMutation(c)
  <2>1. OutcomeOf(c) = Pending /\ Candidate(c)
    BY <1>7, PendingBefore DEF SelectedMutation, IsAt, Inv, HeldIsCurrent
  <2>2. CASE Leaves(c, row, FALSE, Answer("written", client[c].row))
    BY <2>1, <2>2, LeavesAfter DEF IsRefused
  <2>3. CASE Leaves(c, Overwrite(c, row), TRUE, Returned(c, row))
    BY <2>1, <2>3, LeavesAfter DEF IsRefused
  <2> QED
    BY <1>7, <2>1, <2>2, <2>3 DEF SelectedMutation
<1>8. CASE Create(c)
  <2>1. OutcomeOf(c) = Pending /\ Call(c).op = "create"
    BY <1>8, PendingBefore DEF Create, IsAt
  <2>2. CASE Leaves(c, Call(c).values, TRUE, Answer("written", Call(c).values))
    BY <2>1, <2>2, LeavesAfter DEF IsRefused
  <2>3. CASE row # Gone /\ Answered(c, Conflict)
    BY <1>1, <2>1, <2>3, AnsweredAfter, ExistingConflicts DEF IsRefused
  <2> QED
    BY <1>8, <2>2, <2>3 DEF Create
<1>9. CASE Upsert(c)
  <2>1. OutcomeOf(c) = Pending /\ Call(c).op = "upsert"
    BY <1>9, PendingBefore DEF Upsert, IsAt
  <2>2. CASE Leaves(c, Call(c).values, TRUE, Answer("written", Call(c).values))
    BY <2>1, <2>2, LeavesAfter DEF IsRefused
  <2>3. CASE Leaves(c, Overwrite(c, row), TRUE, Returned(c, row))
    BY <2>1, <2>3, LeavesAfter DEF IsRefused
  <2>4. CASE Answered(c, Failed)
    BY <2>1, <2>4, AnsweredAfter DEF IsRefused
  <2>5. CASE row # Gone /\ ~Candidate(c) /\ Answered(c, Missing)
    BY <1>1, <2>1, <2>5, AnsweredAfter, NoCandidateMisses DEF IsRefused
  <2> QED
    BY <1>9, <2>2, <2>3, <2>4, <2>5 DEF Upsert
<1>10. CASE Rollback(c)
  <2>1. OutcomeOf(c) \in {Pending, Missing}
    BY <1>10 DEF Rollback, OutcomeOf, IsAt
  <2> QED
    BY <1>10, <2>1, AnsweredAfter DEF Rollback, IsRefused
<1> QED
  BY <1>2, <1>3, <1>4, <1>5, <1>6, <1>7, <1>8, <1>9, <1>10 DEF OwnStep

LEMMA OwnStepMaps ==
    ASSUME Inv, PredicatesAgree, SeesWhatItSent, NEW c \in Asking, OwnStep(c)
    PROVE  Promise!Next
<1>1. UNCHANGED <<world, row, others>>
  BY OwnStepIsLocal
<1>2. IsRefused(c)
  BY OwnStepRefuses
<1>3. ASSUME NEW d \in Asking, d # c PROVE IsRefused(d)
  BY <1>1, <1>3, OwnStepIsLocal, SameOutcome DEF IsRefused
<1> QED
  BY <1>1, <1>2, <1>3, RefuseMaps

(* What waits while the row changes has missed it if it is gone for good.  *)
LEMMA WitnessedRefuses ==
    ASSUME Inv, NEW d \in Asking, NEW after, NEW wrote, world' = world,
           row' = after, client'[d] = Witnessed(d, after, wrote)
    PROVE  IsRefused(d)
<1>1. client[d] \in Transactions
  BY DEF Inv, TypeOK
<1>2. CASE ~(wrote /\ IsAt(d, "waiting"))
  BY <1>2, SameOutcome DEF Witnessed, IsRefused
<1>3. CASE wrote /\ IsAt(d, "waiting")
  <2>1. /\ client'[d].at = "waiting" /\ client'[d].seen = Seen(d, after)
        /\ client[d].at = "waiting"
    BY <1>1, <1>3 DEF Witnessed, IsAt, Transactions
  <2>2. /\ Call(d)' = Call(d) /\ world'.isolation = world.isolation
        /\ OutcomeOf(d) = IF HasMissed(d) THEN Missing ELSE Pending
        /\ OutcomeOf(d)' = IF HasMissed(d)' THEN Missing ELSE Pending
    BY <2>1 DEF OutcomeOf, IsAt, Call
  <2>3. CASE HasMissed(d)
    <3>1. HasMissed(d)'
      BY <2>1, <2>2, <2>3 DEF HasMissed, IsAt, IsDeleted, CannotSerialize, Seen
    <3> QED
      BY <2>2, <2>3, <3>1 DEF IsRefused
  <2>4. CASE ~HasMissed(d) /\ HasMissed(d)'
    <3>1. /\ Call(d).op \in {"update", "delete"} /\ Seen(d, after) = "deleted"
          /\ world.isolation # "repeatable read"
      BY <2>1, <2>2, <2>4
         DEF HasMissed, IsAt, IsDeleted, CannotSerialize
    <3>2. client[d].seen # "deleted"
      BY <2>1, <2>4, <3>1 DEF HasMissed, IsAt, IsDeleted, CannotSerialize
    <3>3. row' = Gone
      BY <3>1, <3>2 DEF Seen
    <3>4. ~Writes(Call(d), row') /\ Outcome(Call(d), row') = Missing
      BY <3>1, <3>3
         DEF Writes, Inserts, Overwrites, Removes, Selected, Outcome
    <3> QED
      BY <2>2, <2>4, <3>4 DEF IsRefused
  <2>5. CASE ~HasMissed(d) /\ ~HasMissed(d)'
    BY <2>2, <2>5 DEF IsRefused
  <2> QED
    BY <2>3, <2>4, <2>5
<1> QED
  BY <1>2, <1>3

(* The moment of a call that writes is its commit.                         *)
LEMMA CommitMaps ==
    ASSUME Inv, SeesWhatItSent, NEW c \in Asking, Commit(c)
    PROVE  Promise!Next
<1>1. /\ client[c] \in Transactions /\ world' = world /\ others' = others
      /\ Asking' = Asking
  BY DEF Inv, TypeOK, Commit, Asking
<1>2. /\ Writes(Call(c), row) /\ row' = After(Call(c), row)
      /\ client[c].answer = Outcome(Call(c), row)
  BY DEF Inv, WritesAreConditional, Commit
<1>3. OutcomeOf(c) = Pending
  BY DEF OutcomeOf, Commit, IsAt, HasMissed
<1>4. OutcomeOf(c)' = Outcome(Call(c), row)
  <2>1. client'[c] = [client[c] EXCEPT !.at = "answered"]
    BY DEF Commit
  <2>2. client'[c].at = "answered" /\ client'[c].answer = client[c].answer
    BY <1>1, <2>1 DEF Transactions
  <2> QED
    BY <1>2, <2>2 DEF OutcomeOf, IsAt, HasMissed
<1>5. ASSUME NEW d \in Asking, d # c PROVE Promise!MayBeRefused(d)
  <2>1. /\ client'[d] = Witnessed(d, client[c].row, client[c].wrote)
        /\ row' = client[c].row
    BY <1>5 DEF Commit
  <2> QED
    BY <1>1, <2>1, WitnessedRefuses, RefusedMaps
<1>6. Promise!Perform(c)
  BY <1>1, <1>2, <1>3, <1>4, <1>5
     DEF Promise!Perform, Promise!Asking, Asking, Call,
         Promise!Pending, Pending, Promise!Missing, Missing, Promise!Answer,
         Answer, Promise!Outcome, Outcome, Promise!Writes, Writes,
         Promise!Inserts, Inserts, Promise!Overwrites, Overwrites,
         Promise!Removes, Removes, Promise!Selected, Selected,
         Promise!After, After, Promise!Overwritten, Overwritten,
         Promise!Conflict, Conflict
<1> QED
  BY <1>6 DEF Promise!Next, Promise!Asking, Asking

LEMMA OtherWriteMaps ==
    ASSUME Inv, OtherWrite PROVE Promise!Next
<1>1. /\ world' = world /\ others' = others + 1 /\ Asking' = Asking
      /\ row' \in Rows \cup {Gone}
  BY WorldsAssumption DEF Inv, TypeOK, OtherWrite, Asking
<1>2. ASSUME NEW d \in Asking PROVE Promise!MayBeRefused(d)
  <2>1. client'[d] = Witnessed(d, row', TRUE)
    BY DEF OtherWrite
  <2> QED
    BY <1>1, <2>1, WitnessedRefuses, RefusedMaps
<1>3. Promise!OtherWrite
  BY <1>1, <1>2 DEF Promise!OtherWrite, Promise!Asking, Asking
<1> QED
  BY <1>3 DEF Promise!Next

LEMMA InitMaps == Init => Promise!Init
<1> SUFFICES ASSUME Init PROVE Promise!Init
  OBVIOUS
<1>1. Inv
  BY InitInv
<1>2. \A c \in Asking : c \in Clients /\ OutcomeOf(c) = Pending
  BY <1>1, CallTyped DEF Init, NotAsked, OutcomeOf, IsAt, HasMissed, Inv
<1> QED
  BY <1>1, <1>2
     DEF Promise!Init, Promise!Asking, Asking, Init, Inv, TypeOK,
         Promise!Pending, Pending, Promise!Answer, Answer

LEMMA NextMaps ==
    ASSUME Inv, PredicatesAgree, SeesWhatItSent, [Next]_vars
    PROVE  [Promise!Next]_(Promise!vars)
<1>1. ASSUME NEW c \in Asking, OwnStep(c) PROVE Promise!Next
  BY <1>1, OwnStepMaps
<1>2. ASSUME NEW c \in Asking, Commit(c) PROVE Promise!Next
  BY <1>2, CommitMaps
<1>3. CASE OtherWrite
  BY <1>3, OtherWriteMaps
<1>4. CASE UNCHANGED vars
  <2>1. \A d : OutcomeOf(d)' = OutcomeOf(d)
    BY <1>4, SameOutcome DEF vars
  <2>2. /\ world' = world /\ row' = row /\ others' = others
        /\ Asking' = Asking
    BY <1>4 DEF vars, Asking
  <2>3. [c \in Asking |-> OutcomeOf(c)]' = [c \in Asking |-> OutcomeOf(c)]
    BY <2>1, <2>2
  <2> QED
    BY <2>2, <2>3 DEF Promise!vars
<1> QED
  BY <1>1, <1>2, <1>3, <1>4 DEF Next, Finished, OwnStep

(* Where compiled predicates mean what the reference does, the statements  *)
(* of every adapter implement the conditional mutation of one moment.      *)
THEOREM Atomic == Spec /\ []PredicatesAgree => MutationsAreAtomic
<1>1. Init => Inv /\ SeesWhatItSent /\ Promise!Init
  BY InitInv, SeesInit, InitMaps
<1>2. Inv /\ PredicatesAgree /\ [Next]_vars => Inv'
  BY NextInv
<1>3. Inv /\ Inv' /\ SeesWhatItSent /\ [Next]_vars => SeesWhatItSent'
  BY SeesNext
<1>4. Inv /\ PredicatesAgree /\ SeesWhatItSent /\ [Next]_vars
         => [Promise!Next]_(Promise!vars)
  BY NextMaps
<1> QED
  BY <1>1, <1>2, <1>3, <1>4, PTL DEF Spec, MutationsAreAtomic, Promise!Spec

(***************************************************************************)
(* The hypothesis.  Two recursions that agree on a node whenever they      *)
(* agree on its parts agree on every predicate: of those on which they     *)
(* differ, none could be the smallest.                                     *)
(***************************************************************************)
LEMMA LeastOf ==
    ASSUME NEW S, S # {}, S \subseteq Nat
    PROVE  \E i \in S : \A j \in S : i <= j
<1> DEFINE less == OpToRel(<, Nat)
<1>1. IsWellFoundedOn(less, Nat)
  BY NatLessThanWellFounded, Zenon
<1>2. PICK i \in S : \A j \in S : <<j, i>> \notin less
  <2> HIDE DEF less
  <2> QED BY <1>1, WFMin
<1>3. ASSUME NEW j \in S, j < i PROVE FALSE
  <2>1. j \in Nat /\ i \in Nat
    OBVIOUS
  <2>2. <<j, i>> \in less
    BY <1>3, <2>1, Zenon DEF OpToRel
  <2> QED BY <1>2, <2>2
<1>4. \A j \in S : j \in Nat /\ i \in Nat
  OBVIOUS
<1> QED BY <1>3, <1>4

\* A field that the Prisma schema requires has a value in every row.
HasRequired(adapter, r) ==
    adapter = "prisma" => \A f \in NonNullable : f \in DOMAIN r /\ r[f] # Null

\* SQL's comparison is unknown where the memory adapter's is.
LEMMA OrdersAgree ==
    ASSUME NEW operator \in {"gt", "gte", "lt", "lte"}, NEW a, NEW v
    PROVE  SqlCompares(operator, a, v) = MemoryCompares(operator, a, v)
  BY DEF SqlCompares, MemoryCompares

LEMMA EqualitiesAgree ==
    ASSUME NEW operator \in {"eq", "ne"}, NEW a, NEW v
    PROVE  NativeComparison(operator, a, v) = MemoryComparison(operator, a, v)
<1>1. CASE v = Null
  BY <1>1 DEF NativeComparison, MemoryComparison, Truth, Not3
<1>2. CASE v # Null /\ a = Null
  BY <1>2 DEF NativeComparison, MemoryComparison, SqlOperator, SqlCompares,
              Truth, Not3, Unknown
<1>3. CASE v # Null /\ a # Null
  BY <1>3 DEF NativeComparison, MemoryComparison, SqlOperator, SqlCompares
<1> QED BY <1>1, <1>2, <1>3

LEMMA ListsAgree ==
    ASSUME NEW operator \in {"in", "nin"}, NEW a, NEW v,
           v = <<>> \/ 1 \in DOMAIN v
    PROVE  NativeComparison(operator, a, v) = MemoryComparison(operator, a, v)
<1> DEFINE equal == {SqlCompares("eq", a, w) : w \in Listed(v)}
<1>1. NativeComparison(operator, a, v) = ListTest(operator, a, v)
  BY DEF NativeComparison
<1>2. MemoryComparison(operator, a, v)
        = IF operator = "in" THEN MemoryMember(a, v, "true", "false")
                             ELSE MemoryMember(a, v, "false", "true")
  BY DEF MemoryComparison
<1>3. CASE v = <<>>
  BY <1>1, <1>2, <1>3 DEF ListTest, MemoryMember, Truth
<1>4. CASE v # <<>>
  <2>1. ListTest(operator, a, v)
          = IF operator = "in" THEN Or3(equal) ELSE Not3(Or3(equal))
    BY <1>4 DEF ListTest, SqlOperator
  <2>2. v[1] \in Listed(v)
    BY <1>4 DEF Listed
  <2>3. CASE a = Null
    <3>1. equal = {Unknown}
      BY <2>2, <2>3 DEF SqlCompares
    <3>2. Or3(equal) = Unknown /\ Not3(Unknown) = Unknown
      BY <3>1 DEF Or3, Not3, Unknown
    <3> HIDE DEF equal
    <3> QED BY <1>1, <1>2, <1>4, <2>1, <2>3, <3>2 DEF MemoryMember
  <2>4. CASE a # Null
    <3>1. /\ "true" \in equal <=> a \in Listed(v)
          /\ Unknown \in equal <=> Null \in Listed(v)
      BY <2>4 DEF SqlCompares, Truth, Unknown
    <3> HIDE DEF equal
    <3>2. Or3(equal) = CASE a \in Listed(v) -> "true"
                         [] OTHER -> IF Null \in Listed(v) THEN Unknown
                                                           ELSE "false"
      BY <3>1 DEF Or3
    <3> QED BY <1>1, <1>2, <1>4, <2>1, <2>4, <3>2
            DEF MemoryMember, Not3, Unknown
  <2> QED BY <2>3, <2>4
<1> QED BY <1>3, <1>4

LEMMA RangesAgree ==
    ASSUME NEW a, NEW v, Null \notin {v[1], v[2]}
    PROVE  NativeComparison("between", a, v) = MemoryComparison("between", a, v)
<1> DEFINE lower == MemoryCompares("gte", a, v[1])
           upper == MemoryCompares("lte", a, v[2])
<1>1. NativeComparison("between", a, v) = And3({lower, upper})
  BY OrdersAgree DEF NativeComparison, SqlOperator
<1>2. MemoryComparison("between", a, v)
        = IF Unknown \in {lower, upper} THEN Unknown ELSE And3({lower, upper})
  BY DEF MemoryComparison, MemoryBetween
<1>3. CASE a = Null
  <2>1. lower = Unknown /\ upper = Unknown
    BY <1>3 DEF MemoryCompares
  <2> HIDE DEF lower, upper
  <2> QED BY <1>1, <1>2, <2>1 DEF And3, Unknown
<1>4. CASE a # Null
  <2>1. lower \in {"true", "false"} /\ upper \in {"true", "false"}
    BY <1>4 DEF MemoryCompares, Truth
  <2> HIDE DEF lower, upper
  <2> QED BY <1>1, <1>2, <2>1 DEF Unknown
<1> QED BY <1>3, <1>4

LEMMA ComparisonsAgree ==
    ASSUME NEW adapter, NEW r, HasRequired(adapter, r),
           NEW p, IsComparison(p)
    PROVE  (IF adapter = "prisma"
            THEN PrismaComparison(p.field, p.operator, r[p.field], p.value)
            ELSE NativeComparison(p.operator, r[p.field], p.value))
             = MemoryComparison(p.operator, r[p.field], p.value)
<1>1. NativeComparison(p.operator, r[p.field], p.value)
        = MemoryComparison(p.operator, r[p.field], p.value)
  <2>1. CASE p.operator \in {"eq", "ne"}
    BY <2>1, EqualitiesAgree
  <2>2. CASE p.operator \in {"gt", "gte", "lt", "lte"}
    BY <2>2, OrdersAgree DEF NativeComparison, MemoryComparison, SqlOperator
  <2>3. CASE p.operator \in {"in", "nin"}
    BY <2>3, ListsAgree DEF IsComparison
  <2>4. CASE p.operator \in {"contains", "icontains", "isnull"}
    BY <2>4 DEF NativeComparison, MemoryComparison, SqlOperator
  <2>5. CASE p.operator = "between"
    BY <2>5, RangesAgree DEF IsComparison
  <2> QED BY <2>1, <2>2, <2>3, <2>4, <2>5 DEF IsComparison
<1>2. CASE adapter = "prisma" /\ p.operator = "isnull" /\ p.field \in NonNullable
  <2>1. r[p.field] # Null /\ p.value \in BOOLEAN
    BY <1>2 DEF HasRequired, IsComparison
  <2> QED BY <1>2, <2>1 DEF PrismaComparison, MemoryComparison, Truth
<1>3. CASE ~(p.operator = "isnull" /\ p.field \in NonNullable)
  BY <1>1, <1>3 DEF PrismaComparison
<1> QED BY <1>1, <1>2, <1>3

\* What is known of the two evaluators and of the predicates asked.
ReadsPredicates(nodes, depth) ==
    /\ IsEvaluation /\ IsCompilation
    /\ ArePredicates(nodes, depth) /\ Null \notin nodes
    /\ \A adapter, p, r :
          Compiled(adapter, p, r) <=> CompiledMatches(adapter, p, r)
    /\ \A p, r : Selects(p, r) <=> Matches(r, p)

\* Calls ask with such predicates, and nobody stores a row that lacks what
\* the schema requires.
WorldsAsk(nodes) ==
    \A w \in Worlds :
        /\ \A r \in w.rows : HasRequired(w.adapter, r)
        /\ \A c \in DOMAIN w.calls :
              /\ w.calls[c].predicate \in nodes
              /\ HasRequired(w.adapter, w.calls[c].values)

LEMMA NodesAgree ==
    ASSUME NEW nodes, NEW depth, ReadsPredicates(nodes, depth),
           NEW adapter, NEW r, HasRequired(adapter, r), NEW p \in nodes,
           \A q \in nodes : depth[q] < depth[p] =>
               Compilation(adapter, r, q) = Evaluation(r, q)
    PROVE  Compilation(adapter, r, p) = Evaluation(r, p)
<1>1. /\ Compilation(adapter, r, p) = SqlNodeTruth(Compilation, adapter, r, p)
      /\ Evaluation(r, p) = NodeTruth(Evaluation, r, p)
  BY DEF ReadsPredicates, IsCompilation, IsEvaluation
<1>2. CASE IsComparison(p)
  <2>1. p.kind = "comparison"
    BY <1>2 DEF IsComparison
  <2>2. /\ SqlNodeTruth(Compilation, adapter, r, p)
             = IF adapter = "prisma"
               THEN PrismaComparison(p.field, p.operator, r[p.field], p.value)
               ELSE NativeComparison(p.operator, r[p.field], p.value)
        /\ NodeTruth(Evaluation, r, p)
             = MemoryComparison(p.operator, r[p.field], p.value)
    BY <2>1 DEF SqlNodeTruth, NodeTruth
  <2> QED BY <1>1, <1>2, <2>2, ComparisonsAgree
<1>3. CASE /\ p.kind \in {"and", "or"}
           /\ \A i \in DOMAIN p.predicates :
                 /\ p.predicates[i] \in nodes
                 /\ depth[p.predicates[i]] < depth[p]
  <2> DEFINE sql == {Compilation(adapter, r, p.predicates[i]) :
                        i \in DOMAIN p.predicates}
             parts == {Evaluation(r, p.predicates[i]) :
                        i \in DOMAIN p.predicates}
  <2>1. sql = parts
    BY <1>3
  <2>2. SqlNodeTruth(Compilation, adapter, r, p) = Junction(p.kind, sql)
    BY <1>3 DEF SqlNodeTruth
  <2>3. NodeTruth(Evaluation, r, p)
          = IF p.kind = "and" THEN And3(parts) ELSE Or3(parts)
    BY <1>3 DEF NodeTruth
  <2> HIDE DEF sql, parts
  <2>4. Junction(p.kind, parts)
          = IF p.kind = "and" THEN And3(parts) ELSE Or3(parts)
    BY <1>3 DEF Junction, And3, Or3, Truth, Unknown
  <2> QED BY <1>1, <2>1, <2>2, <2>3, <2>4
<1>4. CASE /\ p.kind = "not"
           /\ p.predicate \in nodes /\ depth[p.predicate] < depth[p]
  <2>1. /\ SqlNodeTruth(Compilation, adapter, r, p)
             = Not3(Compilation(adapter, r, p.predicate))
        /\ NodeTruth(Evaluation, r, p) = Not3(Evaluation(r, p.predicate))
    BY <1>4 DEF SqlNodeTruth, NodeTruth
  <2> QED BY <1>1, <1>4, <2>1
<1> QED BY <1>2, <1>3, <1>4 DEF ReadsPredicates, ArePredicates

(* The SQL of every adapter has the truth value that the memory adapter    *)
(* gives the predicate, unknown where that is unknown.                     *)
LEMMA TruthsAgree ==
    ASSUME NEW nodes, NEW depth, ReadsPredicates(nodes, depth),
           NEW adapter, NEW r, HasRequired(adapter, r), NEW p \in nodes
    PROVE  Compilation(adapter, r, p) = Evaluation(r, p)
<1> DEFINE differ == {q \in nodes : Compilation(adapter, r, q) # Evaluation(r, q)}
           depths == {depth[q] : q \in differ}
<1>1. depth \in [nodes -> Nat]
  BY DEF ReadsPredicates, ArePredicates
<1>2. SUFFICES ASSUME p \in differ PROVE FALSE
  OBVIOUS
<1>3. depths # {} /\ depths \subseteq Nat
  BY <1>1, <1>2
<1>4. PICK n \in depths : \A m \in depths : n <= m
  <2> HIDE DEF depths
  <2> QED BY <1>3, LeastOf
<1>5. PICK q \in differ : n = depth[q]
  OBVIOUS
<1>6. ASSUME NEW s \in nodes, depth[s] < depth[q]
      PROVE  Compilation(adapter, r, s) = Evaluation(r, s)
  <2>1. depth[s] \in Nat /\ depth[q] \in Nat /\ ~(depth[q] <= depth[s])
    BY <1>1, <1>6
  <2> QED BY <1>4, <1>5, <2>1
<1>7. Compilation(adapter, r, q) = Evaluation(r, q)
  BY <1>6, NodesAgree
<1> QED BY <1>7

\* The committed row has what the schema requires.
RequiredStored == row # Gone => HasRequired(world.adapter, row)

LEMMA PredicatesHold ==
    ASSUME NEW nodes, NEW depth, ReadsPredicates(nodes, depth),
           WorldsAsk(nodes), Inv, RequiredStored
    PROVE  PredicatesAgree
<1> SUFFICES ASSUME row # Gone, NEW c \in Asking
             PROVE  Compiled(world.adapter, Call(c).predicate, row)
                      <=> Selects(Call(c).predicate, row)
  BY DEF PredicatesAgree
<1>1. Call(c).predicate \in nodes /\ Call(c).predicate # Null
  BY DEF WorldsAsk, ReadsPredicates, Inv, TypeOK, Asking, Call
<1>2. Compilation(world.adapter, row, Call(c).predicate)
        = Evaluation(row, Call(c).predicate)
  BY <1>1, TruthsAgree DEF RequiredStored
<1> QED BY <1>1, <1>2 DEF ReadsPredicates, CompiledMatches, Matches

LEMMA RequiredNext ==
    ASSUME NEW nodes, WorldsAsk(nodes), Inv, RequiredStored, [Next]_vars
    PROVE  RequiredStored'
<1>1. CASE UNCHANGED <<world, row>>
  BY <1>1 DEF RequiredStored
<1>2. ASSUME NEW c \in Asking, Commit(c) PROVE RequiredStored'
  <2>1. row' = After(Call(c), row) /\ world' = world
    BY <1>2 DEF Commit, Inv, WritesAreConditional
  <2>2. HasRequired(world.adapter, Call(c).values)
    BY DEF WorldsAsk, Inv, TypeOK, Asking, Call
  <2>3. CASE Inserts(Call(c), row)
    <3>1. row' = Call(c).values
      BY <2>1, <2>3 DEF After, Inserts, Overwrites, Removes, Selected
    <3> QED BY <2>1, <2>2, <3>1 DEF RequiredStored, HasRequired
  <2>4. CASE Overwrites(Call(c), row) /\ ~Inserts(Call(c), row)
    <3>1. row' = Overwritten(Call(c), row) /\ row # Gone
      BY <2>1, <2>4 DEF After, Inserts, Overwrites, Removes, Selected
    <3>2. HasRequired(world.adapter, row)
      BY <3>1 DEF RequiredStored
    <3>3. HasRequired(world.adapter, Overwritten(Call(c), row))
      <4> SUFFICES ASSUME world.adapter = "prisma", NEW f \in NonNullable
                   PROVE  /\ f \in DOMAIN Overwritten(Call(c), row)
                          /\ Overwritten(Call(c), row)[f] # Null
        BY DEF HasRequired
      <4>1. /\ f \in DOMAIN row /\ row[f] # Null
            /\ Call(c).values[f] # Null
        BY <2>2, <3>2 DEF HasRequired
      <4> QED BY <4>1 DEF Overwritten
    <3> QED BY <2>1, <3>1, <3>3 DEF HasRequired, RequiredStored
  <2>5. CASE ~Overwrites(Call(c), row) /\ ~Inserts(Call(c), row)
    <3>1. row' = Gone \/ row' = row
      BY <2>1, <2>5 DEF After
    <3> QED BY <2>1, <3>1 DEF RequiredStored, HasRequired
  <2> QED BY <2>3, <2>4, <2>5
<1>3. CASE OtherWrite
  BY <1>3 DEF OtherWrite, RequiredStored, WorldsAsk, Inv, TypeOK
<1> QED
  BY <1>1, <1>2, <1>3
     DEF Next, vars, Finished, Find, Locate, SendInsert, Grant, Save,
         SelectedMutation, Create, Upsert, Rollback

(* The compiled predicates of the three database adapters select what the  *)
(* memory adapter's evaluation selects, whatever the predicate, the rows   *)
(* and the writes between.                                                 *)
THEOREM Agreement ==
    ASSUME NEW nodes, NEW depth, ReadsPredicates(nodes, depth), WorldsAsk(nodes)
    PROVE  Spec => []PredicatesAgree
<1>1. Init => Inv /\ RequiredStored
  BY InitInv DEF Init, RequiredStored, WorldsAsk
<1>2. Inv /\ RequiredStored => PredicatesAgree
  BY PredicatesHold
<1>3. Inv /\ RequiredStored /\ [Next]_vars => Inv' /\ RequiredStored'
  BY PredicatesHold, NextInv, RequiredNext
<1> QED BY <1>1, <1>2, <1>3, PTL DEF Spec

(* So the adapters' writes are conditional until they commit, and their    *)
(* mutations atomic, for predicates that requests can bring.               *)
THEOREM AdaptersKeepTheirContract ==
    ASSUME NEW nodes, NEW depth, ReadsPredicates(nodes, depth), WorldsAsk(nodes)
    PROVE  Spec => []WritesAreConditional /\ MutationsAreAtomic
  BY Agreement, Conditional, Atomic, PTL
=============================================================================
