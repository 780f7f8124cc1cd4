---------------------- MODULE TransactionSessionProofs ----------------------
(***************************************************************************)
(* Theorems about TransactionSession, for every number of requests, of     *)
(* adapters and of configurations.                                         *)
(***************************************************************************)
EXTENDS TransactionSession, TLAPS

(* Until work begins nothing has happened, and the transaction is the one  *)
(* the adapter asked for, if it opened it itself.                          *)
Fresh(r) ==
    /\ phase[r] \in {"idle", "connected", "began"} =>
        /\ session[r] = NoSession
        /\ call[r] = NoCall
        /\ result[r] = "pending"
        /\ ~ wrote[r]
        /\ page[r].total = NoView
        /\ txn[r] = NoTxn <=> phase[r] # "began"
    /\ phase[r] \in {"connected", "began"} => ~ Standalone(r)
    /\ phase[r] = "began" /\ ~ Of(r).runner =>
        /\ txn[r].owns
        /\ txn[r].level = Needs(r).level
        /\ ToBeReadOnly(r) \/ txn[r].access = Needs(r).access

(* Work runs in a session that is what it claims and honours the request,  *)
(* or else for a bare call in no transaction.                              *)
InSession(r) ==
    /\ session[r] # NoSession =>
        /\ phase[r] = "inside"
        /\ session[r] = txn[r]
        /\ ~ Standalone(r)
        /\ Honors(Needs(r), txn[r])
    /\ phase[r] = "inside" /\ session[r] = NoSession =>
        /\ Standalone(r)
        /\ txn[r] = Autocommit

(* The transaction is what a call needs.                                   *)
Covers(given, needs) ==
    /\ needs.level = "rr" => given.level = "rr"
    /\ needs.access = "read write" =>
        given.access = "read write" /\ given.owns

(* A call under way was admitted.                                          *)
CallsCovered(r) ==
    call[r] # NoCall =>
        /\ phase[r] = "inside"
        /\ session[r] = NoSession => call[r].name = request[r].name
        /\ call[r].name # "reference" =>
            Covers(txn[r],
                   CallRequirements(call[r].name, config[call[r].adapter]))

(* What was written was written by no read, and is committed by the end.   *)
Writes(r) ==
    wrote[r] =>
        /\ request[r].name \notin Reads
        /\ txn[r].owns
        /\ phase[r] = "inside" /\ session[r] = NoSession => durable[r]
        /\ phase[r] \in {"closing", "done"} /\ result[r] = "ok" => durable[r]

(* Between the two statements of a count the snapshot stays.               *)
OnePage(r) ==
    /\ call[r] # NoCall /\ call[r].stage = "total" =>
        /\ call[r].name = "findCounted"
        /\ snapshot[r] # NoView
        /\ page[r].rows = snapshot[r]
    /\ page[r].total # NoView => page[r].total = page[r].rows

(* A connection is held from connect() to release().                       *)
Held(r) ==
    /\ phase[r] = "connected" => QueryRunner(r)
    /\ holds[r] =>
        /\ QueryRunner(r)
        /\ ~ Standalone(r)
        /\ phase[r] # "idle"
        /\ phase[r] = "done" => txn[r] = NoTxn

Good(r) ==
    /\ Fresh(r)
    /\ InSession(r)
    /\ CallsCovered(r)
    /\ Writes(r)
    /\ OnePage(r)
    /\ Held(r)

IInv ==
    /\ TypeOK
    /\ \A r \in Requests : Good(r)

-----------------------------------------------------------------------------
(* What requests ask for.                                                  *)

\* A call asks for REPEATABLE READ exactly if something configured, or its
\* count, does; and to write and to commit exactly if it is no read.
LEMMA CallNeeds ==
    ASSUME NEW name, NEW c
    PROVE  /\ CallRequirements(name, c) \in Transaction
           /\ CallRequirements(name, c).level = "rr" <=>
                \/ c.operation = "rr"
                \/ name = "findCounted"
                \/ name # "create" /\ c.row = "rr"
           /\ CallRequirements(name, c).access =
                IF name \in Reads THEN "read only" ELSE "read write"
           /\ CallRequirements(name, c).owns = (name \notin Reads)
BY DEF CallRequirements, Strongest, Transaction, Levels, Modes

\* The same of an operation of the service, which reads lists from a snapshot.
LEMMA OperationNeeds ==
    ASSUME NEW op, NEW c
    PROVE  /\ TransactionRequirements(op, c) \in Transaction
           /\ TransactionRequirements(op, c).level = "rr" <=>
                \/ c.operation = "rr"
                \/ op = "list"
                \/ op # "create" /\ c.row = "rr"
           /\ TransactionRequirements(op, c).access =
                IF op \in Reads THEN "read only" ELSE "read write"
           /\ TransactionRequirements(op, c).owns = (op \notin Reads)
BY DEF TransactionRequirements, Strongest, Transaction, Levels, Modes

LEMMA NeedsOfRequest ==
    ASSUME NEW r
    PROVE  /\ Needs(r) \in Transaction
           /\ Needs(r).access =
                IF request[r].name \in Reads THEN "read only" ELSE "read write"
           /\ Needs(r).owns = (request[r].name \notin Reads)
<1> DEFINE name == request[r].name
<1>1. /\ CallRequirements(name, Of(r)) \in Transaction
      /\ CallRequirements(name, Of(r)).access =
            IF name \in Reads THEN "read only" ELSE "read write"
      /\ CallRequirements(name, Of(r)).owns = (name \notin Reads)
  BY CallNeeds
<1>2. /\ TransactionRequirements(name, Of(r)) \in Transaction
      /\ TransactionRequirements(name, Of(r)).access =
            IF name \in Reads THEN "read only" ELSE "read write"
      /\ TransactionRequirements(name, Of(r)).owns = (name \notin Reads)
  BY OperationNeeds
<1> QED BY <1>1, <1>2 DEF Needs

-----------------------------------------------------------------------------
(* Types.                                                                  *)

LEMMA InitTypes == Init => TypeOK
BY BoundAssumption
   DEF Init, TypeOK, Phases

LEMMA ViewType ==
    ASSUME TypeOK, NEW r \in Requests
    PROVE  View(r) \in Nat
BY BoundAssumption DEF View, TypeOK

\* What End and Go leave of the types they touch.
LEMMA EndTypes ==
    ASSUME TypeOK, NEW r \in Requests, NEW p \in Phases,
           NEW outcome \in {"ok", "error"}, End(r, p, outcome)
    PROVE  /\ phase' \in [Requests -> Phases]
           /\ session' \in [Requests -> Transaction \cup {NoSession}]
           /\ call' \in [Requests -> Call \cup {NoCall}]
           /\ result' \in [Requests -> {"pending", "ok", "error"}]
BY DEF End, TypeOK

LEMMA GoTypes ==
    ASSUME TypeOK, NEW r \in Requests, NEW p \in Phases, Go(r, p)
    PROVE  /\ phase' \in [Requests -> Phases]
           /\ session' \in [Requests -> Transaction \cup {NoSession}]
           /\ call' \in [Requests -> Call \cup {NoCall}]
           /\ result' \in [Requests -> {"pending", "ok", "error"}]
BY DEF Go, TypeOK

LEMMA StepTypes == IInv /\ [Next]_vars => TypeOK'
<1> SUFFICES ASSUME IInv, Next PROVE TypeOK'
  BY DEF IInv, TypeOK, vars
<1>0. TypeOK /\ \A r \in Requests : Fresh(r)
  BY DEF IInv, Good
<1> USE <1>0
<1>1. ASSUME NEW r \in Requests, RunStandalone(r) PROVE TypeOK'
  <2>1. [adapter |-> request[r].adapter, name |-> request[r].name,
         stage |-> "rows"] \in Call
    BY <1>1 DEF RunStandalone, Standalone, TypeOK, Request, Call
  <2>2. Autocommit \in Transaction
    BY DEF Autocommit, Transaction, Modes, Levels
  <2> QED BY <1>1, <2>1, <2>2 DEF RunStandalone, Unread, TypeOK, Phases
<1>2. ASSUME NEW r \in Requests, RunnerBegins(r) PROVE TypeOK'
  <2>1. "began" \in Phases BY DEF Phases
  <2> QED BY <1>2, <2>1, GoTypes DEF RunnerBegins, Unread, TypeOK
<1>3. ASSUME NEW r \in Requests, DrizzleBegins(r) PROVE TypeOK'
  <2>1. "began" \in Phases /\ "done" \in Phases BY DEF Phases
  <2>2. [Needs(r) EXCEPT !.owns = TRUE] \in Transaction
    BY NeedsOfRequest DEF Transaction
  <2>3. txn' \in [Requests -> Transaction \cup {NoTxn}]
    BY <1>3, <2>2 DEF DrizzleBegins, TypeOK
  <2> QED
    BY <1>3, <2>1, <2>3, GoTypes, EndTypes DEF DrizzleBegins, Unread, TypeOK
<1>4. ASSUME NEW r \in Requests, Connect(r) PROVE TypeOK'
  <2>1. "connected" \in Phases /\ "done" \in Phases BY DEF Phases
  <2> QED BY <1>4, <2>1, GoTypes, EndTypes DEF Connect, Unread, TypeOK
<1>5. ASSUME NEW r \in Requests, StartTransaction(r) PROVE TypeOK'
  <2>1. "began" \in Phases /\ "done" \in Phases BY DEF Phases
  <2>2. [access |-> "read write", level |-> Needs(r).level, owns |-> TRUE]
            \in Transaction
    BY NeedsOfRequest DEF Transaction, Modes
  <2>3. txn' \in [Requests -> Transaction \cup {NoTxn}]
    BY <1>5, <2>2 DEF StartTransaction, TypeOK
  <2> QED
    BY <1>5, <2>1, <2>3, GoTypes, EndTypes
       DEF StartTransaction, Unread, TypeOK
<1>6. ASSUME NEW r \in Requests, SetReadOnly(r) PROVE TypeOK'
  <2>1. "began" \in Phases /\ "ending" \in Phases BY DEF Phases
  <2>2. txn[r] \in Transaction BY <1>6 DEF SetReadOnly, Fresh, TypeOK
  <2>3. [txn[r] EXCEPT !.access = "read only"] \in Transaction
    BY <2>2 DEF Transaction, Modes
  <2>4. txn' \in [Requests -> Transaction \cup {NoTxn}]
    BY <1>6, <2>3 DEF SetReadOnly, TypeOK
  <2> QED
    BY <1>6, <2>1, <2>4, GoTypes, EndTypes DEF SetReadOnly, Unread, TypeOK
<1>7. ASSUME NEW r \in Requests, Enter(r) PROVE TypeOK'
  <2>1. "inside" \in Phases /\ "ending" \in Phases BY DEF Phases
  <2>2. txn[r] \in Transaction BY <1>7 DEF Enter, Fresh, TypeOK
  <2>3. Effective(r) \in Transaction
    BY <2>2, NeedsOfRequest DEF Effective, Transaction
  <2>4. request[r].bare => [adapter |-> request[r].adapter,
                            name |-> request[r].name,
                            stage |-> "resolve"] \in Call
    BY DEF TypeOK, Request, Call
  <2>5. CASE Honors(Needs(r), Effective(r))
    <3>1. phase' \in [Requests -> Phases]
      BY <1>7, <2>1, <2>5 DEF Enter, TypeOK
    <3>2. session' \in [Requests -> Transaction \cup {NoSession}]
      BY <1>7, <2>3, <2>5 DEF Enter, TypeOK
    <3>3. call' \in [Requests -> Call \cup {NoCall}]
      BY <1>7, <2>4, <2>5 DEF Enter, TypeOK
    <3> QED
      BY <1>7, <2>5, <3>1, <3>2, <3>3 DEF Enter, Unread, TypeOK
  <2>6. CASE ~ Honors(Needs(r), Effective(r))
    BY <1>7, <2>1, <2>6, EndTypes DEF Enter, Unread, TypeOK
  <2> QED BY <2>5, <2>6
<1>8. ASSUME NEW r \in Requests, NEW a \in Adapters,
             NEW name \in Calls \cup {"reference"}, Ask(r, a, name)
      PROVE TypeOK'
  <2>1. [adapter |-> a, name |-> name, stage |-> "resolve"] \in Call
    BY DEF Call
  <2> QED BY <1>8, <2>1 DEF Ask, Unread, TypeOK
<1>9. ASSUME NEW r \in Requests, ResolvePredicate(r) PROVE TypeOK'
  <2>1. View(r) \in Nat BY ViewType
  <2>2. version \in Nat BY BoundAssumption DEF TypeOK
  <2>3. [call[r] EXCEPT !.stage = "rows"] \in Call
    <3>1. call[r] \in Call BY <1>9 DEF ResolvePredicate, TypeOK
    <3> QED BY <3>1 DEF Call
  <2>4. call' \in [Requests -> Call \cup {NoCall}]
    BY <1>9, <2>3 DEF ResolvePredicate, TypeOK
  <2>5. /\ policy' \in [Requests -> Nat \cup {NoView}]
        /\ snapshot' \in [Requests -> Nat \cup {NoView}]
    <3>1. policy' = [policy EXCEPT ![r] = policy'[r]]
            /\ policy'[r] \in Nat \cup {NoView}
      BY <1>9, <2>1, <2>2 DEF ResolvePredicate, TypeOK
    <3>2. snapshot' = [snapshot EXCEPT ![r] = snapshot'[r]]
            /\ snapshot'[r] \in Nat \cup {NoView}
      BY <1>9, <2>1 DEF ResolvePredicate, TypeOK
    <3> QED BY <3>1, <3>2 DEF TypeOK
  <2> QED BY <1>9, <2>4, <2>5 DEF ResolvePredicate, TypeOK
<1>10. ASSUME NEW r \in Requests, Execute(r) PROVE TypeOK'
  <2>1. View(r) \in Nat BY ViewType
  <2>2. [call[r] EXCEPT !.stage = "total"] \in Call
    <3>1. call[r] \in Call BY <1>10 DEF Execute, TypeOK
    <3> QED BY <3>1 DEF Call
  <2>3. call' \in [Requests -> Call \cup {NoCall}]
    <3>1. call' = [call EXCEPT ![r] = call'[r]]
            /\ call'[r] \in Call \cup {NoCall}
      BY <1>10, <2>2 DEF Execute, TypeOK
    <3> QED BY <3>1 DEF TypeOK
  <2>4. snapshot' \in [Requests -> Nat \cup {NoView}]
    BY <1>10, <2>1 DEF Execute, TypeOK
  <2>5. page' \in [Requests -> [rows : Nat \cup {NoView},
                               total : Nat \cup {NoView}]]
    BY <1>10, <2>1 DEF Execute, TypeOK
  <2>6. /\ executed' \in [Requests -> Nat]
        /\ wrote' \in [Requests -> BOOLEAN]
        /\ durable' \in [Requests -> BOOLEAN]
    BY <1>10 DEF Execute, TypeOK
  <2> QED
    BY <1>10, <2>3, <2>4, <2>5, <2>6 DEF Execute, TypeOK
<1>11. ASSUME NEW r \in Requests, WorkEnds(r) PROVE TypeOK'
  <2>1. "done" \in Phases /\ "ending" \in Phases BY DEF Phases
  <2> QED BY <1>11, <2>1, EndTypes DEF WorkEnds, Unread, TypeOK
<1>12. \A r \in Requests : Afterwards(r) \in Phases
  BY DEF Afterwards, Phases
<1>13. ASSUME NEW r \in Requests, Commit(r) PROVE TypeOK'
  <2>1. durable' \in [Requests -> BOOLEAN]
    BY <1>13 DEF Commit, TypeOK
  <2> QED BY <1>12, <1>13, <2>1, GoTypes DEF Commit, Unread, TypeOK
<1>14. ASSUME NEW r \in Requests, Rollback(r) PROVE TypeOK'
  BY <1>12, <1>14, EndTypes DEF Rollback, Unread, TypeOK
<1>15. ASSUME NEW r \in Requests, Release(r) PROVE TypeOK'
  <2>1. "done" \in Phases BY DEF Phases
  <2> QED BY <1>15, <2>1, GoTypes DEF Release, Unread, TypeOK
<1>16. ASSUME OtherCommit PROVE TypeOK'
  BY <1>16, BoundAssumption DEF OtherCommit, TypeOK
<1>17. ASSUME AllDone PROVE TypeOK'
  BY <1>17 DEF AllDone, TypeOK, vars
<1> QED
  BY <1>1, <1>2, <1>3, <1>4, <1>5, <1>6, <1>7, <1>8, <1>9, <1>10, <1>11,
     <1>13, <1>14, <1>15, <1>16, <1>17
  DEF Next, Step
-----------------------------------------------------------------------------
(* The invariant.                                                          *)

LEMMA InitGood == Init => IInv
<1> SUFFICES ASSUME Init PROVE IInv
  OBVIOUS
<1>1. TypeOK BY InitTypes
<1>2. ASSUME NEW r \in Requests PROVE Good(r)
  BY <1>2 DEF Init, Good, Fresh, InSession, CallsCovered, Writes, OnePage, Held
<1> QED BY <1>1, <1>2 DEF IInv

\* r stands where it stood.
Still(r) ==
    /\ phase'[r] = phase[r]
    /\ txn'[r] = txn[r]
    /\ session'[r] = session[r]
    /\ call'[r] = call[r]
    /\ snapshot'[r] = snapshot[r]
    /\ page'[r] = page[r]
    /\ holds'[r] = holds[r]
    /\ wrote'[r] = wrote[r]
    /\ durable'[r] = durable[r]
    /\ result'[r] = result[r]

LEMMA StillGood ==
    ASSUME NEW r \in Requests, Good(r), Still(r), UNCHANGED <<config, request>>
    PROVE  Good(r)'
<1>1. /\ Of(r)' = Of(r)
      /\ Needs(r)' = Needs(r)
      /\ Standalone(r)' = Standalone(r)
      /\ QueryRunner(r)' = QueryRunner(r)
  BY DEF Of, Needs, Standalone, Forced, QueryRunner
<1>2. Fresh(r)'
  BY <1>1 DEF Good, Fresh, Still, ToBeReadOnly
<1>3. InSession(r)'
  BY <1>1 DEF Good, InSession, Still, Honors, Autocommit
<1>4. CallsCovered(r)'
  BY <1>1 DEF Good, CallsCovered, Still
<1>5. Writes(r)' /\ OnePage(r)' /\ Held(r)'
  BY <1>1 DEF Good, Writes, OnePage, Held, Still
<1> QED BY <1>2, <1>3, <1>4, <1>5 DEF Good

LEMMA OnlyItself ==
    ASSUME TypeOK, NEW r \in Requests, Step(r), NEW s \in Requests, s # r
    PROVE  Still(s) /\ UNCHANGED <<config, request>>
<1> USE DEF Unread, Still, TypeOK
<1>1. CASE RunStandalone(r) BY <1>1 DEF RunStandalone
<1>2. CASE RunnerBegins(r) BY <1>2 DEF RunnerBegins, Go
<1>3. CASE DrizzleBegins(r) BY <1>3 DEF DrizzleBegins, Go, End
<1>4. CASE Connect(r) BY <1>4 DEF Connect, Go, End
<1>5. CASE StartTransaction(r) BY <1>5 DEF StartTransaction, Go, End
<1>6. CASE SetReadOnly(r) BY <1>6 DEF SetReadOnly, Go, End
<1>7. CASE Enter(r) BY <1>7 DEF Enter, End
<1>8. CASE \E a \in Adapters, name \in Calls \cup {"reference"} : Ask(r, a, name)
  BY <1>8 DEF Ask
<1>9. CASE ResolvePredicate(r) BY <1>9 DEF ResolvePredicate
<1>10. CASE Execute(r) BY <1>10 DEF Execute
<1>11. CASE WorkEnds(r) BY <1>11 DEF WorkEnds, End
<1>12. CASE Commit(r) BY <1>12 DEF Commit, Go
<1>13. CASE Rollback(r) BY <1>13 DEF Rollback, End
<1>14. CASE Release(r) BY <1>14 DEF Release, Go
<1> QED
  BY <1>1, <1>2, <1>3, <1>4, <1>5, <1>6, <1>7, <1>8, <1>9, <1>10, <1>11,
     <1>12, <1>13, <1>14
  DEF Step

\* What a request asks for stays what it is.
LEMMA SameRequest ==
    ASSUME NEW r \in Requests, UNCHANGED <<config, request>>
    PROVE  /\ Of(r)' = Of(r)
           /\ Needs(r)' = Needs(r)
           /\ Standalone(r)' = Standalone(r)
           /\ QueryRunner(r)' = QueryRunner(r)
BY DEF Of, Needs, Standalone, Forced, QueryRunner

\* A bare call that needs no transaction is covered by its own statement.
LEMMA StandaloneIsCovered ==
    ASSUME TypeOK, NEW r \in Requests, Standalone(r)
    PROVE  Covers(Autocommit, CallRequirements(request[r].name, Of(r)))
<1>1. Of(r) \in Config
  BY ConfigAssumption DEF TypeOK, Of, Request
<1>2. ~ \/ Of(r).operation = "rr"
        \/ request[r].name = "findCounted"
        \/ request[r].name # "create" /\ Of(r).row = "rr"
  BY <1>1 DEF Standalone, Forced, Config
<1>3. CallRequirements(request[r].name, Of(r)).level # "rr"
  BY <1>2 DEF CallRequirements, Strongest
<1> QED
  BY <1>3 DEF Covers, Autocommit

\* Starting, by whatever way.
LEMMA StartingIsGood ==
    ASSUME IInv, NEW r \in Requests,
           \/ RunStandalone(r) \/ RunnerBegins(r) \/ DrizzleBegins(r)
           \/ Connect(r) \/ StartTransaction(r) \/ SetReadOnly(r)
    PROVE  Good(r)'
<1>1. TypeOK /\ Good(r) BY DEF IInv
<1>2. UNCHANGED <<config, request>>
  BY DEF RunStandalone, RunnerBegins, DrizzleBegins, Connect,
         StartTransaction, SetReadOnly, Unread
<1>3. /\ Of(r)' = Of(r) /\ Needs(r)' = Needs(r)
      /\ Standalone(r)' = Standalone(r) /\ QueryRunner(r)' = QueryRunner(r)
  BY <1>2, SameRequest
<1>4. CASE RunStandalone(r)
  <2>1. /\ phase'[r] = "inside" /\ txn'[r] = Autocommit /\ Standalone(r)
        /\ call'[r] = [adapter |-> request[r].adapter,
                       name |-> request[r].name, stage |-> "rows"]
        /\ session'[r] = NoSession /\ ~ wrote'[r] /\ ~ holds'[r]
        /\ page'[r].total = NoView
    BY <1>1, <1>4 DEF RunStandalone, Unread, TypeOK, Good, Fresh, Held
  <2>2. Fresh(r)' /\ InSession(r)'
    BY <1>3, <2>1 DEF Fresh, InSession, Autocommit
  <2>3. CallsCovered(r)'
    BY <1>1, <1>2, <2>1, StandaloneIsCovered DEF CallsCovered, Of
  <2>4. Writes(r)' /\ OnePage(r)' /\ Held(r)'
    BY <1>3, <2>1 DEF Writes, OnePage, Held
  <2> QED BY <2>2, <2>3, <2>4 DEF Good
<1>5. CASE RunnerBegins(r)
  <2>1. /\ phase[r] = "idle" /\ phase'[r] = "began" /\ txn'[r] # NoTxn
        /\ ~ Standalone(r) /\ Of(r).runner
        /\ session'[r] = session[r] /\ call'[r] = call[r]
        /\ result'[r] = result[r] /\ wrote'[r] = wrote[r]
        /\ page'[r] = page[r] /\ holds'[r] = holds[r]
    BY <1>1, <1>5, PlaceholderAssumption
       DEF RunnerBegins, Go, Unread, TypeOK
  <2> QED
    BY <1>1, <1>3, <2>1
       DEF Good, Fresh, InSession, CallsCovered, Writes, OnePage, Held
<1>6. CASE DrizzleBegins(r)
  <2>1. /\ phase[r] = "idle" /\ ~ Standalone(r)
        /\ session'[r] = NoSession /\ call'[r] = NoCall
        /\ wrote'[r] = wrote[r] /\ page'[r] = page[r] /\ holds'[r] = holds[r]
    BY <1>1, <1>6
       DEF DrizzleBegins, Go, End, Unread, TypeOK, Good, Fresh
  <2>2. \/ /\ phase'[r] = "began" /\ result'[r] = result[r]
           /\ txn'[r] = [Needs(r) EXCEPT !.owns = TRUE]
        \/ phase'[r] = "done"
    BY <1>1, <1>6 DEF DrizzleBegins, Go, End, TypeOK
  <2>3. LET given == [Needs(r) EXCEPT !.owns = TRUE]
        IN /\ given # NoTxn /\ given.owns /\ given.level = Needs(r).level
           /\ given.access = Needs(r).access
    BY NeedsOfRequest, PlaceholderAssumption DEF Transaction
  <2> QED
    BY <1>1, <1>3, <2>1, <2>2, <2>3
       DEF Good, Fresh, InSession, CallsCovered, Writes, OnePage, Held
<1>7. CASE Connect(r)
  <2>1. /\ phase[r] = "idle" /\ ~ Standalone(r) /\ QueryRunner(r)
        /\ txn'[r] = txn[r] /\ session'[r] = NoSession /\ call'[r] = NoCall
        /\ wrote'[r] = wrote[r] /\ page'[r] = page[r]
        /\ \/ phase'[r] = "connected" /\ result'[r] = result[r]
           \/ phase'[r] = "done" /\ holds'[r] = holds[r]
    BY <1>1, <1>7
       DEF Connect, Go, End, Unread, TypeOK, Good, Fresh
  <2> QED
    BY <1>1, <1>3, <2>1
       DEF Good, Fresh, InSession, CallsCovered, Writes, OnePage, Held
<1>8. CASE StartTransaction(r)
  <2>1. /\ phase[r] = "connected"
        /\ session'[r] = NoSession /\ call'[r] = NoCall
        /\ wrote'[r] = wrote[r] /\ page'[r] = page[r] /\ holds'[r] = holds[r]
        /\ \/ /\ phase'[r] = "began" /\ result'[r] = result[r]
              /\ txn'[r] = [access |-> "read write",
                            level |-> Needs(r).level, owns |-> TRUE]
           \/ phase'[r] = "done" /\ txn'[r] = txn[r]
    BY <1>1, <1>8
       DEF StartTransaction, Go, End, Unread, TypeOK, Good, Fresh
  <2>2. CASE phase'[r] = "began"
    <3>1. txn'[r] = [access |-> "read write", level |-> Needs(r).level,
                     owns |-> TRUE]
      BY <2>1, <2>2
    <3>2. /\ Needs(r).level \in Levels
          /\ Needs(r).access \in {"read only", "read write"}
      BY NeedsOfRequest DEF Transaction, Modes
    <3>3. [access |-> "read write", level |-> Needs(r).level, owns |-> TRUE]
              \in Transaction
      BY <3>2 DEF Transaction, Modes
    <3>4. /\ txn'[r] # NoTxn
          /\ txn'[r].access = "read write"
          /\ txn'[r].level = Needs(r).level
          /\ txn'[r].owns
      <4> DEFINE given == [access |-> "read write", level |-> Needs(r).level,
                           owns |-> TRUE]
      <4>1. given # NoTxn
        BY <3>3, PlaceholderAssumption
      <4>2. given.access = "read write" /\ given.level = Needs(r).level
        OBVIOUS
      <4>3. given.owns
        OBVIOUS
      <4>4. txn'[r] = given
        BY <3>1
      <4> HIDE DEF given
      <4> QED BY <4>1, <4>2, <4>3, <4>4
    <3>5. QueryRunner(r)
      BY <1>1, <2>1 DEF Good, Held
    <3>6. Needs(r).access # "read write" => ToBeReadOnly(r)'
      BY <1>3, <3>2, <3>4, <3>5 DEF ToBeReadOnly
    <3> QED
      BY <1>1, <1>3, <2>1, <2>2, <3>4, <3>6
         DEF Good, Fresh, InSession, CallsCovered, Writes, OnePage, Held
  <2>3. CASE phase'[r] = "done"
    BY <1>1, <1>3, <2>1, <2>3
       DEF Good, Fresh, InSession, CallsCovered, Writes, OnePage, Held
  <2> QED BY <2>1, <2>2, <2>3
<1>9. CASE SetReadOnly(r)
  <2>1. txn[r] \in Transaction
    BY <1>1, <1>9 DEF SetReadOnly, TypeOK, Good, Fresh
  <2>2. /\ phase[r] = "began" /\ ToBeReadOnly(r)
        /\ session'[r] = NoSession /\ call'[r] = NoCall
        /\ wrote'[r] = wrote[r] /\ page'[r] = page[r] /\ holds'[r] = holds[r]
        /\ \/ /\ phase'[r] = "began" /\ result'[r] = result[r]
              /\ txn'[r] = [txn[r] EXCEPT !.access = "read only"]
           \/ phase'[r] = "ending" /\ txn'[r] = txn[r]
    BY <1>1, <1>9
       DEF SetReadOnly, Go, End, Unread, TypeOK, Good, Fresh
  <2>3. LET given == [txn[r] EXCEPT !.access = "read only"]
        IN /\ given # NoTxn /\ given.access = "read only"
           /\ given.level = txn[r].level /\ given.owns = txn[r].owns
    BY <2>1, PlaceholderAssumption DEF Transaction, Modes
  <2>4. Needs(r).access = "read only"
    BY <2>2 DEF ToBeReadOnly
  <2> QED
    BY <1>1, <1>3, <2>2, <2>3, <2>4
       DEF Good, Fresh, InSession, CallsCovered, Writes, OnePage, Held
<1> QED BY <1>4, <1>5, <1>6, <1>7, <1>8, <1>9

\* Work starts with a transaction that is what the session says.
LEMMA EnteringIsGood ==
    ASSUME IInv, NEW r \in Requests, Enter(r)
    PROVE  Good(r)'
<1>1. TypeOK /\ Good(r) BY DEF IInv
<1>2. UNCHANGED <<config, request>> BY DEF Enter, Unread
<1>3. /\ Of(r)' = Of(r) /\ Needs(r)' = Needs(r)
      /\ Standalone(r)' = Standalone(r) /\ QueryRunner(r)' = QueryRunner(r)
  BY <1>2, SameRequest
<1>4. /\ phase[r] = "began" /\ ~ Standalone(r) /\ call[r] = NoCall
      /\ txn[r] \in Transaction /\ ~ wrote[r] /\ page[r].total = NoView
      /\ txn'[r] = txn[r] /\ wrote'[r] = wrote[r] /\ page'[r] = page[r]
      /\ holds'[r] = holds[r]
  BY <1>1 DEF Enter, Unread, TypeOK, Good, Fresh
<1>5. CASE Honors(Needs(r), Effective(r))
  <2>1. Effective(r) = txn[r]
    <3>1. CASE Of(r).runner
      BY <3>1 DEF Effective
    <3>2. CASE ~ Of(r).runner
      <4>1. /\ txn[r].owns /\ txn[r].level = Needs(r).level
            /\ txn[r].access = Needs(r).access
        BY <1>1, <1>4, <3>2 DEF Enter, Good, Fresh
      <4>2. Effective(r) = [Needs(r) EXCEPT !.owns = TRUE]
        BY <3>2 DEF Effective
      <4> QED
        BY <1>4, <4>1, <4>2, NeedsOfRequest DEF Transaction
    <3> QED BY <3>1, <3>2
  <2>2. /\ phase'[r] = "inside" /\ session'[r] = txn[r]
        /\ call'[r] = IF request[r].bare
                      THEN [adapter |-> request[r].adapter,
                            name |-> request[r].name, stage |-> "resolve"]
                      ELSE NoCall
    BY <1>1, <1>4, <1>5, <2>1 DEF Enter, TypeOK
  <2>3. session'[r] # NoSession
    BY <1>4, <2>2, PlaceholderAssumption
  <2>4. request[r].bare =>
            Covers(txn[r], CallRequirements(request[r].name, Of(r)))
    <3>1. Needs(r).access = "read write" => Needs(r).owns
      BY NeedsOfRequest
    <3> QED
      BY <1>5, <2>1, <3>1 DEF Needs, Honors, Covers
  <2>5. InSession(r)'
    BY <1>3, <1>4, <1>5, <2>1, <2>2, <2>3 DEF InSession, Honors
  <2>6. CallsCovered(r)'
    <3>1. CASE request[r].bare
      <4>1. /\ call'[r].name = request[r].name
            /\ call'[r].adapter = request[r].adapter
        BY <2>2, <3>1
      <4>2. Covers(txn[r], CallRequirements(call'[r].name,
                                            config[call'[r].adapter]))
        BY <2>4, <3>1, <4>1 DEF Of
      <4> QED BY <1>2, <1>4, <2>2, <2>3, <4>2 DEF CallsCovered
    <3>2. CASE ~ request[r].bare
      BY <2>2, <3>2 DEF CallsCovered
    <3> QED BY <3>1, <3>2
  <2>7. OnePage(r)'
    BY <1>4, <2>2 DEF OnePage
  <2>8. Fresh(r)' /\ Writes(r)' /\ Held(r)'
    BY <1>1, <1>3, <1>4, <2>2 DEF Good, Fresh, Writes, Held
  <2> QED BY <2>5, <2>6, <2>7, <2>8 DEF Good
<1>6. CASE ~ Honors(Needs(r), Effective(r))
  <2>1. /\ phase'[r] = "ending" /\ session'[r] = NoSession
        /\ call'[r] = NoCall
    BY <1>1, <1>6 DEF Enter, End, TypeOK
  <2> QED
    BY <1>1, <1>3, <1>4, <2>1
       DEF Good, Fresh, InSession, CallsCovered, Writes, OnePage, Held
<1> QED BY <1>5, <1>6

\* Calls are made only with a session that covers them.
LEMMA AskingIsGood ==
    ASSUME IInv, NEW r \in Requests, NEW a \in Adapters,
           NEW name \in Calls \cup {"reference"}, Ask(r, a, name)
    PROVE  Good(r)'
<1>1. TypeOK /\ Good(r) BY DEF IInv
<1>2. UNCHANGED <<config, request>> BY DEF Ask, Unread
<1>3. /\ Of(r)' = Of(r) /\ Needs(r)' = Needs(r)
      /\ Standalone(r)' = Standalone(r) /\ QueryRunner(r)' = QueryRunner(r)
  BY <1>2, SameRequest
<1>4. /\ phase[r] = "inside" /\ session[r] # NoSession
      /\ phase'[r] = phase[r] /\ txn'[r] = txn[r] /\ session'[r] = session[r]
      /\ wrote'[r] = wrote[r] /\ page'[r] = page[r] /\ holds'[r] = holds[r]
      /\ durable'[r] = durable[r] /\ result'[r] = result[r]
      /\ call'[r] = [adapter |-> a, name |-> name, stage |-> "resolve"]
  BY <1>1 DEF Ask, Admits, AdmitsReference, Unread, TypeOK
<1>5. session[r] = txn[r] BY <1>1, <1>4 DEF Good, InSession
<1>6. name # "reference" => Covers(txn[r], CallRequirements(name, config[a]))
  <2>1. CallRequirements(name, config[a]).access = "read write" =>
            CallRequirements(name, config[a]).owns
    BY DEF CallRequirements
  <2> QED BY <1>5, <2>1 DEF Ask, Admits, Covers
<1>7. CallsCovered(r)'
  <2>1. call'[r].name = name /\ call'[r].adapter = a
    BY <1>4
  <2>2. call'[r].name # "reference" =>
            Covers(txn[r], CallRequirements(call'[r].name,
                                            config[call'[r].adapter]))
    BY <1>6, <2>1
  <2> QED BY <1>2, <1>4, <2>2 DEF CallsCovered
<1>8. InSession(r)'
  BY <1>1, <1>3, <1>4 DEF Good, InSession, Honors
<1>9. Fresh(r)' /\ Writes(r)' /\ OnePage(r)' /\ Held(r)'
  BY <1>1, <1>2, <1>3, <1>4 DEF Good, Fresh, Writes, OnePage, Held
<1> QED BY <1>7, <1>8, <1>9 DEF Good

LEMMA ResolvingIsGood ==
    ASSUME IInv, NEW r \in Requests, ResolvePredicate(r)
    PROVE  Good(r)'
<1>1. TypeOK /\ Good(r) BY DEF IInv
<1>2. UNCHANGED <<config, request>> BY DEF ResolvePredicate
<1>3. /\ Of(r)' = Of(r) /\ Needs(r)' = Needs(r)
      /\ Standalone(r)' = Standalone(r) /\ QueryRunner(r)' = QueryRunner(r)
  BY <1>2, SameRequest
<1>4. /\ phase[r] = "inside" /\ call[r] \in Call /\ call[r] # NoCall
      /\ phase'[r] = phase[r] /\ txn'[r] = txn[r] /\ session'[r] = session[r]
      /\ wrote'[r] = wrote[r] /\ page'[r] = page[r] /\ holds'[r] = holds[r]
      /\ durable'[r] = durable[r] /\ result'[r] = result[r]
      /\ call'[r] = [call[r] EXCEPT !.stage = "rows"]
  BY <1>1 DEF ResolvePredicate, TypeOK
<1>5. /\ call'[r].name = call[r].name /\ call'[r].adapter = call[r].adapter
      /\ call'[r].stage = "rows"
  BY <1>4 DEF Call
<1>6. CallsCovered(r)'
  BY <1>1, <1>2, <1>4, <1>5 DEF Good, CallsCovered, Covers
<1>7. InSession(r)'
  BY <1>1, <1>3, <1>4 DEF Good, InSession, Honors
<1>8. Fresh(r)' /\ Writes(r)' /\ OnePage(r)' /\ Held(r)'
  BY <1>1, <1>2, <1>3, <1>4, <1>5 DEF Good, Fresh, Writes, OnePage, Held
<1> QED BY <1>6, <1>7, <1>8 DEF Good

\* A statement writes where it may, and a count sees what its rows were.
LEMMA ExecutingIsGood ==
    ASSUME IInv, NEW r \in Requests, Execute(r)
    PROVE  Good(r)'
<1>1. TypeOK /\ Good(r) BY DEF IInv
<1>2. UNCHANGED <<config, request>> BY DEF Execute
<1>3. /\ Of(r)' = Of(r) /\ Needs(r)' = Needs(r)
      /\ Standalone(r)' = Standalone(r) /\ QueryRunner(r)' = QueryRunner(r)
  BY <1>2, SameRequest
<1>4. /\ phase[r] = "inside" /\ call[r] \in Call /\ call[r] # NoCall
      /\ call[r].stage \in {"rows", "total"}
      /\ phase'[r] = phase[r] /\ txn'[r] = txn[r] /\ session'[r] = session[r]
      /\ holds'[r] = holds[r] /\ result'[r] = result[r]
      /\ snapshot'[r] = View(r)
  BY <1>1 DEF Execute, TypeOK
<1>5. View(r) # NoView BY <1>1, ViewType, PlaceholderAssumption
<1>6. /\ wrote'[r] = (wrote[r] \/ call[r].name \in Calls \ Reads)
      /\ durable'[r] = (durable[r] \/ (/\ call[r].name \in Calls \ Reads
                                      /\ session[r] = NoSession))
  BY <1>1 DEF Execute, TypeOK
<1>7. Writes(r)'
  <2>1. CASE wrote[r]
    BY <1>1, <1>2, <1>4, <1>6, <2>1 DEF Good, Writes
  <2>2. CASE ~ wrote[r] /\ call[r].name \in Calls \ Reads
    <3>1. call[r].name # "reference" BY <2>2 DEF Calls
    <3>2. CallRequirements(call[r].name, config[call[r].adapter]).access
            = "read write"
      BY <2>2 DEF CallRequirements
    <3>3. txn[r].access = "read write" /\ txn[r].owns
      BY <1>1, <1>4, <3>1, <3>2 DEF Good, CallsCovered, Covers
    <3>4. request[r].name \notin Reads
      <4>1. CASE session[r] = NoSession
        BY <1>1, <1>4, <2>2, <4>1 DEF Good, CallsCovered
      <4>2. CASE session[r] # NoSession
        <5>1. Needs(r).access = "read write"
          BY <1>1, <3>3, <4>2 DEF Good, InSession, Honors
        <5> QED BY <5>1, NeedsOfRequest
      <4> QED BY <4>1, <4>2
    <3> QED BY <1>2, <1>4, <1>6, <2>2, <3>3, <3>4 DEF Writes
  <2>3. CASE ~ wrote[r] /\ call[r].name \notin Calls \ Reads
    BY <1>6, <2>3 DEF Writes
  <2> QED BY <2>1, <2>2, <2>3
<1>8. CASE call[r].name = "findCounted" /\ call[r].stage = "rows"
  <2>1. /\ call'[r] = [call[r] EXCEPT !.stage = "total"]
        /\ page'[r] = [rows |-> View(r), total |-> NoView]
    BY <1>1, <1>8 DEF Execute, TypeOK
  <2>2. /\ call'[r].name = call[r].name
        /\ call'[r].adapter = call[r].adapter
    BY <1>4, <2>1 DEF Call
  <2>3. CallsCovered(r)'
    BY <1>1, <1>2, <1>4, <2>2 DEF Good, CallsCovered, Covers
  <2>4. OnePage(r)'
    BY <1>4, <1>5, <1>8, <2>1, <2>2 DEF OnePage
  <2>5. Fresh(r)' /\ InSession(r)' /\ Held(r)'
    BY <1>1, <1>3, <1>4 DEF Good, Fresh, InSession, Held, Honors
  <2> QED BY <1>7, <2>3, <2>4, <2>5 DEF Good
<1>9. CASE ~ (call[r].name = "findCounted" /\ call[r].stage = "rows")
  <2>1. /\ call'[r] = NoCall
        /\ call[r].name # "findCounted" => page'[r] = page[r]
        /\ call[r].name = "findCounted" =>
                page'[r] = [page[r] EXCEPT !.total = View(r)]
    BY <1>1, <1>9 DEF Execute, TypeOK
  <2>2. OnePage(r)'
    <3>1. CASE call[r].name # "findCounted"
      BY <1>1, <2>1, <3>1 DEF Good, OnePage
    <3>2. CASE call[r].name = "findCounted"
      <4>1. call[r].stage = "total" BY <1>4, <1>9, <3>2
      <4>2. page[r].rows = snapshot[r] /\ snapshot[r] # NoView
        BY <1>1, <1>4, <4>1 DEF Good, OnePage
      <4>3. CallRequirements(call[r].name, config[call[r].adapter]).level = "rr"
        BY <3>2 DEF CallRequirements, Strongest
      <4>4. txn[r].level = "rr"
        BY <1>1, <1>4, <3>2, <4>3 DEF Good, CallsCovered, Covers
      <4>5. View(r) = snapshot[r] BY <4>2, <4>4 DEF View
      <4>6. page'[r].total = View(r) /\ page'[r].rows = page[r].rows
        BY <1>1, <2>1, <3>2 DEF TypeOK
      <4> QED BY <2>1, <4>2, <4>5, <4>6 DEF OnePage
    <3> QED BY <3>1, <3>2
  <2>3. CallsCovered(r)' BY <2>1 DEF CallsCovered
  <2>4. Fresh(r)' /\ InSession(r)' /\ Held(r)'
    BY <1>1, <1>3, <1>4 DEF Good, Fresh, InSession, Held, Honors
  <2> QED BY <1>7, <2>2, <2>3, <2>4 DEF Good
<1> QED BY <1>8, <1>9

\* Ending, by whatever way.
LEMMA EndingIsGood ==
    ASSUME IInv, NEW r \in Requests,
           WorkEnds(r) \/ Commit(r) \/ Rollback(r) \/ Release(r)
    PROVE  Good(r)'
<1>1. TypeOK /\ Good(r) BY DEF IInv
<1>2. UNCHANGED <<config, request>>
  BY DEF WorkEnds, Commit, Rollback, Release, Unread
<1>3. /\ Of(r)' = Of(r) /\ Needs(r)' = Needs(r)
      /\ Standalone(r)' = Standalone(r) /\ QueryRunner(r)' = QueryRunner(r)
  BY <1>2, SameRequest
<1>4. /\ phase[r] \in {"inside", "ending", "closing"}
      /\ phase'[r] \in {"ending", "closing", "done"}
      /\ txn'[r] = txn[r] /\ wrote'[r] = wrote[r] /\ page'[r] = page[r]
      /\ snapshot'[r] = snapshot[r]
  BY <1>1
     DEF WorkEnds, Commit, Rollback, Release, Unread, Go, End, TypeOK,
         Afterwards
<1>5. session'[r] = NoSession /\ call'[r] = NoCall
  BY <1>1
     DEF WorkEnds, Commit, Rollback, Release, Go, End, TypeOK, Good,
         InSession, CallsCovered
<1>6. Writes(r)'
  <2>1. CASE WorkEnds(r)
    BY <1>1, <1>2, <1>4, <1>5, <2>1
       DEF WorkEnds, End, TypeOK, Good, Writes, InSession
  <2>2. CASE Commit(r)
    BY <1>1, <1>2, <1>4, <2>2 DEF Commit, Go, TypeOK, Good, Writes, Afterwards
  <2>3. CASE Rollback(r)
    BY <1>1, <1>2, <1>4, <2>3 DEF Rollback, End, TypeOK, Good, Writes, Afterwards
  <2>4. CASE Release(r)
    BY <1>1, <1>2, <1>4, <2>4 DEF Release, Go, TypeOK, Good, Writes
  <2> QED BY <2>1, <2>2, <2>3, <2>4
<1>7. Held(r)'
  <2>1. CASE WorkEnds(r)
    BY <1>1, <1>3, <1>4, <2>1 DEF WorkEnds, End, TypeOK, Good, Held
  <2>2. CASE Commit(r) \/ Rollback(r)
    BY <1>1, <1>3, <1>4, <2>2
       DEF Commit, Rollback, Go, End, TypeOK, Good, Held, Afterwards
  <2>3. CASE Release(r)
    BY <1>1, <1>3, <1>4, <2>3 DEF Release, TypeOK, Held
  <2> QED BY <2>1, <2>2, <2>3
<1>8. Fresh(r)' /\ InSession(r)' /\ CallsCovered(r)' /\ OnePage(r)'
  BY <1>1, <1>4, <1>5 DEF Good, Fresh, InSession, CallsCovered, OnePage
<1> QED BY <1>6, <1>7, <1>8 DEF Good

LEMMA StepGood == IInv /\ [Next]_vars => IInv'
<1> SUFFICES ASSUME IInv, [Next]_vars PROVE IInv'
  OBVIOUS
<1>1. TypeOK' BY StepTypes
<1>2. ASSUME NEW s \in Requests PROVE Good(s)'
  <2>1. Good(s) /\ TypeOK BY DEF IInv
  <2>2. CASE UNCHANGED vars \/ OtherCommit \/ AllDone
    <3>1. Still(s) /\ UNCHANGED <<config, request>>
      BY <2>2 DEF vars, OtherCommit, AllDone, Still
    <3> QED BY <2>1, <3>1, StillGood
  <2>3. ASSUME NEW r \in Requests, Step(r) PROVE Good(s)'
    <3>1. CASE s # r
      BY <2>1, <2>3, <3>1, OnlyItself, StillGood
    <3>2. CASE s = r
      BY <2>3, <3>2, StartingIsGood, EnteringIsGood, AskingIsGood,
         ResolvingIsGood, ExecutingIsGood, EndingIsGood
      DEF Step
    <3> QED BY <3>1, <3>2
  <2> QED BY <2>2, <2>3 DEF Next
<1> QED BY <1>1, <1>2 DEF IInv

LEMMA Invariance == Spec => []IInv
BY InitGood, StepGood, PTL DEF Spec

-----------------------------------------------------------------------------
(* Every variable keeps its type, for any number of requests and adapters. *)
THEOREM TypeCorrect == Spec => []TypeOK
<1>1. IInv => TypeOK BY DEF IInv
<1> QED BY <1>1, Invariance, PTL

(* Whatever a runner gives, an active session is what #runTransaction      *)
(* believes of it.                                                         *)
THEOREM TruthfulSessions == Spec => []SessionTellsTheTruth
<1>1. IInv => SessionTellsTheTruth
  BY DEF IInv, Good, InSession, SessionTellsTheTruth
<1> QED BY <1>1, Invariance, PTL

(* transaction() asks for enough: #withRepository and #withExecutor never  *)
(* refuse the calls the service itself makes.                              *)
THEOREM OwnCallsPass == Spec => []OwnCallsAreAdmitted
<1>1. ASSUME IInv, NEW r \in Requests, session[r] # NoSession,
             ~ request[r].bare, NEW name \in OwnCalls(request[r].name)
      PROVE  Admits(r, request[r].adapter, name)
  <2>1. /\ session[r] = txn[r]
        /\ Honors(TransactionRequirements(request[r].name, Of(r)), txn[r])
    BY <1>1 DEF IInv, Good, InSession, Needs
  <2>2. request[r].name \in Operations
    BY <1>1 DEF IInv, TypeOK, Request
  <2>3. CallRequirements(name, Of(r)).level = "rr" =>
            TransactionRequirements(request[r].name, Of(r)).level = "rr"
    BY <1>1, <2>2
       DEF CallRequirements, TransactionRequirements, Strongest, OwnCalls,
           Operations
  <2>4. name \in Reads \/ request[r].name \notin Reads
    BY <1>1, <2>2 DEF OwnCalls, Operations, Reads
  <2> QED
    BY <1>1, <2>1, <2>3, <2>4
       DEF Admits, Honors, Of, CallRequirements, TransactionRequirements
<1>2. IInv => OwnCallsAreAdmitted BY <1>1 DEF OwnCallsAreAdmitted
<1> QED BY <1>2, Invariance, PTL

(* resolveEffectiveTransaction lets no mutation into a transaction that    *)
(* cannot commit it: "ok" means durable.                                   *)
THEOREM Durability == Spec => []AcknowledgedIsDurable
<1>1. IInv => AcknowledgedIsDurable
  BY DEF IInv, Good, Writes, AcknowledgedIsDurable
<1> QED BY <1>1, Invariance, PTL

(* No hook or validator of a list or a read can write with its session.    *)
THEOREM ReadsAreReads == Spec => []ReadsChangeNothing
<1>1. IInv => ReadsChangeNothing
  BY DEF IInv, Good, Writes, ReadsChangeNothing
<1> QED BY <1>1, Invariance, PTL

(* A counted list is one snapshot, whatever others commit meanwhile.       *)
THEOREM OneSnapshot == Spec => []CountedPagesAgree
<1>1. IInv => CountedPagesAgree
  BY DEF IInv, Good, OnePage, CountedPagesAgree
<1> QED BY <1>1, Invariance, PTL

(* #runOwnTransaction releases every connection on which it could start a  *)
(* transaction.                                                            *)
THEOREM Released == Spec => []OnlyFailedStartsKeepConnections
<1>1. IInv => OnlyFailedStartsKeepConnections
  BY DEF IInv, Good, Held, OnlyFailedStartsKeepConnections
<1> QED BY <1>1, Invariance, PTL

(* No statement of an adapter runs in less than its call requires.         *)
THEOREM Coverage == Spec => StatementsAreCovered
<1> DEFINE A == \A r \in Requests :
        (executed'[r] # executed[r] /\ call[r].name # "reference") =>
            LET needs == CallRequirements(call[r].name, config[call[r].adapter])
            IN /\ needs.level = "rr" => txn[r].level = "rr"
               /\ needs.access = "read write" =>
                    txn[r].access = "read write" /\ txn[r].owns
<1>1. IInv /\ [Next]_vars => [A]_vars
  <2> SUFFICES ASSUME IInv, Next, NEW s \in Requests,
                      executed'[s] # executed[s], call[s].name # "reference"
               PROVE  Covers(txn[s], CallRequirements(call[s].name,
                                                      config[call[s].adapter]))
    BY DEF Covers
  <2>1. ASSUME NEW r \in Requests, Step(r), ~ Execute(r)
        PROVE  UNCHANGED executed
    BY <2>1
       DEF Step, Unread, RunStandalone, RunnerBegins, DrizzleBegins, Connect,
           StartTransaction, SetReadOnly, Enter, Ask, ResolvePredicate,
           WorkEnds, Commit, Rollback, Release
  <2>2. PICK r \in Requests : Execute(r)
    BY <2>1 DEF Next, OtherCommit, AllDone, vars
  <2>3. executed' = [executed EXCEPT ![r] = @ + 1]
    BY <2>2 DEF Execute
  <2>4. r = s
    BY <2>3 DEF IInv, TypeOK
  <2> QED BY <2>2, <2>4 DEF IInv, Good, CallsCovered, Execute
<1> QED BY <1>1, Invariance, PTL DEF Spec, StatementsAreCovered
=============================================================================
