------------------------ MODULE CrudLifecycleProofs ------------------------
(***************************************************************************)
(* CrudLifecycle for any number of requests, identities, tenants and       *)
(* hooks, over every adapter.                                              *)
(***************************************************************************)
EXTENDS CrudLifecycle, TLAPS

(* Where a request stands determines what it has been told and has told.    *)
StageInv ==
    \A r \in Requests :
        /\ phase[r] \notin {"emit", "done"} =>
            answer[r] = "pending" /\ delivered[r] = 0 /\ change[r] = NoChange
        /\ phase[r] = "emit" => answer[r] = "ok" /\ delivered[r] < HookCount
        /\ phase[r] = "done" =>
            /\ answer[r] # "pending"
            /\ delivered[r] = IF answer[r] = "ok" THEN HookCount ELSE 0
        /\ answer[r] = "ok" <=> change[r] # NoChange
        /\ committed[r] # NoEvent => phase[r] \in {"commit", "emit", "done"}

(* A request that wrote its row holds the row's lock, so the committed row *)
(* is still the one its statement acted on.                                *)
OwnInv ==
    /\ \A r \in Requests :
        /\ own[r] # Untouched => phase[r] \in {"after", "commit"}
        /\ phase[r] = "after" => own[r] # Untouched
        /\ phase[r] = "commit" =>
            /\ own[r] # Untouched <=> committed[r] # NoEvent
            /\ own[r] = Untouched => request[r].op = "delete" /\ IgnoreMissing
        /\ own[r] # Untouched =>
            /\ Accepts(request[r], Committed(r))
            /\ own[r] = Written(request[r], Committed(r), r, SoftDelete)
    /\ \A q, r \in Requests :
        (own[q] # Untouched /\ own[r] # Untouched
            /\ request[q].id = request[r].id) => q = r

(* What the event shows is what is, or was, committed.                     *)
EventInv ==
    \A r \in Requests :
        /\ (/\ phase[r] = "commit"
            /\ committed[r] # NoEvent
            /\ request[r].op # "delete") => committed[r].response = own[r]
        /\ (/\ answer[r] = "ok"
            /\ request[r].op # "delete") =>
                committed[r].response = change[r].after

(* Over a serial adapter nobody else is at work; at REPEATABLE READ what   *)
(* was read is the snapshot, and it is still committed when the row is     *)
(* written.                                                                *)
PriorInv ==
    /\ isolation = "serial" =>
        \A q, r \in Requests : phase[q] \in Open /\ phase[r] \in Open => q = r
    /\ \A r \in Requests : request[r].op \in WithPrior =>
        /\ phase[r] = "before" /\ isolation = "serial" => prior[r] = Committed(r)
        /\ phase[r] = "before" /\ isolation = "repeatableRead" =>
            prior[r] = snapshot[r]
        /\ own[r] # Untouched /\ isolation # "readCommitted" =>
            prior[r] = Committed(r)
    /\ PriorIsReplaced

IInv ==
    /\ TypeOK
    /\ StageInv
    /\ OwnInv
    /\ EventInv
    /\ PriorInv
    /\ HookWritesShareFate

-----------------------------------------------------------------------------
(* A statement acts on a row of the selecting tenant or inserts one, leaves *)
(* a row or none, and revives a row only to restore it.                    *)
LEMMA WrittenRow ==
    ASSUME NEW q \in Request, NEW row \in Row \cup {NoRow}, NEW r \in Requests,
           NEW soft \in BOOLEAN, Accepts(q, row)
    PROVE  /\ Written(q, row, r, soft) \in Row \cup {NoRow}
           /\ Written(q, row, r, soft) # NoRow =>
                Written(q, row, r, soft).by = r
           /\ row # NoRow => row.tenant = q.tenant
           /\ row # NoRow /\ row.deleted => q.op = "restore"
<1> USE NoRowAssumption
<1>1. q.op \in Ops /\ q.writes \in Owners
  BY DEF Request, Ops, Owners
<1>2. CASE row = NoRow
  <2>1. Written(q, row, r, soft) = [tenant |-> q.writes, deleted |-> FALSE, by |-> r]
    <3>1. q.op \notin {"update", "delete", "restore"}
      BY <1>1, <1>2 DEF Accepts, Matches, Ops
    <3>2. QED
      BY <1>2, <3>1 DEF Written
  <2>2. [tenant |-> q.writes, deleted |-> FALSE, by |-> r] \in Row
    BY <1>1 DEF Row
  <2>3. QED
    BY <1>2, <2>1, <2>2
<1>3. CASE row # NoRow
  <2>1. Matches(q, row)
    BY <1>1, <1>3 DEF Accepts, Ops
  <2>2. row \in Row /\ row.tenant = q.tenant /\ row.deleted = (q.op = "restore")
    BY <1>3, <2>1 DEF Matches
  <2>3. Written(q, row, r, soft) \in
            {NoRow, [row EXCEPT !.deleted = TRUE, !.by = r],
             [row EXCEPT !.deleted = FALSE, !.by = r],
             [row EXCEPT !.tenant = Overwritten(q, row), !.by = r]}
    <3>1. CASE q.op = "delete" /\ soft
      BY <1>3, <3>1 DEF Written
    <3>2. CASE q.op = "delete" /\ ~ soft
      BY <1>3, <3>2 DEF Written
    <3>3. CASE q.op = "restore"
      BY <1>3, <3>3 DEF Written
    <3>4. CASE q.op \notin {"delete", "restore"}
      BY <1>3, <3>4 DEF Written
    <3>5. QED
      BY <3>1, <3>2, <3>3, <3>4
  <2>4. \A new \in {[row EXCEPT !.deleted = TRUE, !.by = r],
             [row EXCEPT !.deleted = FALSE, !.by = r],
             [row EXCEPT !.tenant = Overwritten(q, row), !.by = r]} :
            new \in Row /\ new.by = r
    <3>1. Overwritten(q, row) \in Owners
      BY <1>1, <2>2 DEF Overwritten, Row
    <3>2. QED
      BY <2>2, <3>1 DEF Row
  <2>5. QED
    BY <1>3, <2>2, <2>3, <2>4
<1>4. QED
  BY <1>2, <1>3

(* What a request finds is what its operation accepts.                     *)
LEMMA FoundIsAccepted ==
    ASSUME TypeOK, NEW r \in Requests, Finds(r)
    PROVE  Accepts(request[r], Committed(r))
BY DEF TypeOK, Request, Finds, Selects, Accepts, Committed, Ops, Matches

LEMMA CommittedRow ==
    ASSUME TypeOK, NEW r \in Requests
    PROVE  request[r] \in Request /\ Committed(r) \in Row \cup {NoRow}
BY DEF TypeOK, Request, Committed

LEMMA StatusIsRefusal ==
    ASSUME NEW error
    PROVE  Status(error) \in {"http", "409", "400", "500"}
BY DEF Status

-----------------------------------------------------------------------------
(* The steps of a request by what they come to: several actions share the  *)
(* refusal and the skipping of a missing row.                              *)
Answers == {"pending", "ok", "ignored", "http", "400", "404", "409", "500"}

Refused(r) ==
    /\ phase[r] \in {"idle", "scopes", "prior", "before", "after", "commit"}
    /\ \E status \in {"http", "400", "404", "409", "500"} : Fail(r, status)

Skipped(r) ==
    /\ phase[r] \in {"prior", "before"}
    /\ request[r].op = "delete" /\ IgnoreMissing
    /\ Advance(r, "commit")
    /\ UNCHANGED <<rows, audit, hook, txnVars, answer, change>>

Entered(r) ==
    /\ phase[r] = "idle"
    /\ Advance(r, "called")
    /\ UNCHANGED <<rows, audit, hook, txnVars, answer, change>>

FoundPrior(r) ==
    /\ phase[r] = "prior"
    /\ Selects(r, Seen(r))
    /\ Advance(r, "before")
    /\ prior' = [prior EXCEPT ![r] = Seen(r)]
    /\ UNCHANGED <<rows, audit, hook, snapshot, own, ownAudit, committed,
                   answer, change>>

Acted(r) ==
    /\ phase[r] = "before"
    /\ ~ Locked(r)
    /\ ~ Clashes(r)
    /\ Finds(r)
    /\ Advance(r, "after")
    /\ own' = [own EXCEPT ![r] =
                  Written(request[r], Committed(r), r, SoftDelete)]
    /\ hook' = [hook EXCEPT ![r] = 0]
    /\ UNCHANGED <<rows, audit, snapshot, ownAudit, prior, committed, answer,
                   change>>

OneStep(r) ==
    \/ Refused(r)
    \/ Skipped(r)
    \/ Entered(r)
    \/ Begin(r)
    \/ ResolveScopes(r)
    \/ FoundPrior(r)
    \/ RunHook(r, "before") \/ RunHook(r, "after")
    \/ Acted(r)
    \/ Respond(r)
    \/ Commit(r)
    \/ AfterCommit(r)

LEMMA StepKinds ==
    ASSUME Next
    PROVE  (\E r \in Requests : OneStep(r)) \/ UNCHANGED vars
<1>1. ASSUME NEW r \in Requests, Call(r)
      PROVE  OneStep(r)
  BY <1>1 DEF Call, OneStep, Refused, Entered
<1>2. ASSUME NEW r \in Requests, phase[r] \in {"prior", "before"}, Missing(r)
      PROVE  OneStep(r)
  BY <1>2 DEF Missing, OneStep, Refused, Skipped
<1>3. ASSUME NEW r \in Requests, ReadPrior(r)
      PROVE  OneStep(r)
  BY <1>2, <1>3 DEF ReadPrior, OneStep, FoundPrior
<1>4. ASSUME NEW r \in Requests, Mutate(r)
      PROVE  OneStep(r)
  <2>1. CASE Fail(r, Status("conflict"))
    BY <1>4, <2>1, StatusIsRefusal DEF Mutate, OneStep, Refused
  <2>2. CASE Missing(r)
    BY <1>2, <1>4, <2>2 DEF Mutate
  <2>3. QED
    BY <1>4, <2>1, <2>2 DEF Mutate, OneStep, Acted
<1>5. ASSUME NEW r \in Requests, Throw(r) \/ CommitRejected(r)
      PROVE  OneStep(r)
  BY <1>5, StatusIsRefusal DEF Throw, CommitRejected, OneStep, Refused
<1>6. QED
  BY <1>1, <1>3, <1>4, <1>5
     DEF Next, Step, BeforeHook, AfterHook, AllDone, OneStep

-----------------------------------------------------------------------------
LEMMA ResponseIsEvent ==
    ASSUME IInv, NEW r \in Requests, Respond(r)
    PROVE  [prior |-> prior[r],
            response |-> IF request[r].op = "delete" THEN NoRow ELSE own[r]]
                \in Event
<1>1. own[r] \in Row \cup {NoRow}
  BY DEF IInv, OwnInv, TypeOK, Respond
<1>2. QED
  BY <1>1 DEF IInv, TypeOK, Event

LEMMA TypeStep ==
    ASSUME IInv, NEW r \in Requests, OneStep(r)
    PROVE  TypeOK'
<1> USE HookCountAssumption DEF IInv
<1>1. CASE Refused(r)
  BY <1>1 DEF Refused, Fail, Advance, TypeOK, Phases
<1>2. CASE Skipped(r)
  BY <1>2 DEF Skipped, Advance, TypeOK, Phases, txnVars
<1>3. CASE Entered(r)
  BY <1>3 DEF Entered, Advance, TypeOK, Phases, txnVars
<1>4. CASE Begin(r)
  <2>1. Committed(r) \in Row \cup {NoRow}
    BY DEF TypeOK, Committed, Request
  <2>2. QED
    BY <1>4, <2>1 DEF Begin, Advance, TypeOK, Phases
<1>5. CASE ResolveScopes(r)
  BY <1>5 DEF ResolveScopes, Advance, TypeOK, Phases, txnVars
<1>6. CASE FoundPrior(r)
  <2>1. Seen(r) \in Row \cup {NoRow}
    BY DEF TypeOK, Seen, Committed, Request
  <2>2. QED
    BY <1>6, <2>1 DEF FoundPrior, Advance, TypeOK, Phases
<1>7. CASE RunHook(r, "before") \/ RunHook(r, "after")
  BY <1>7 DEF RunHook, TypeOK
<1>8. CASE Acted(r)
  <2>1. Written(request[r], Committed(r), r, SoftDelete) \in Row \cup {NoRow}
    BY <1>8, FoundIsAccepted, CommittedRow, WrittenRow, FlagsAssumption
       DEF Acted
  <2>2. QED
    BY <1>8, <2>1 DEF Acted, Advance, TypeOK, Phases
<1>9. CASE Respond(r)
  BY <1>9, ResponseIsEvent DEF Respond, Advance, TypeOK, Phases
<1>10. CASE Commit(r)
  BY <1>10 DEF Commit, Advance, TypeOK, Phases, Change, Request
<1>11. CASE AfterCommit(r)
  BY <1>11 DEF AfterCommit, StageInv, TypeOK, Phases, txnVars
<1>12. QED
  BY <1>1, <1>2, <1>3, <1>4, <1>5, <1>6, <1>7, <1>8, <1>9, <1>10, <1>11
     DEF OneStep

LEMMA StageStep ==
    ASSUME IInv, NEW r \in Requests, OneStep(r)
    PROVE  StageInv'
<1> USE HookCountAssumption, PlaceholderAssumption DEF IInv
<1>1. CASE Refused(r)
  BY <1>1 DEF Refused, Fail, Advance, TypeOK, Phases, StageInv
<1>2. CASE Skipped(r)
  BY <1>2 DEF Skipped, Advance, TypeOK, Phases, txnVars, StageInv
<1>3. CASE Entered(r)
  BY <1>3 DEF Entered, Advance, TypeOK, Phases, txnVars, StageInv
<1>4. CASE Begin(r)
  BY <1>4 DEF Begin, Advance, TypeOK, Phases, StageInv
<1>5. CASE ResolveScopes(r)
  BY <1>5 DEF ResolveScopes, Advance, TypeOK, Phases, txnVars, StageInv
<1>6. CASE FoundPrior(r)
  BY <1>6 DEF FoundPrior, Advance, TypeOK, Phases, StageInv
<1>7. CASE RunHook(r, "before") \/ RunHook(r, "after")
  BY <1>7 DEF RunHook, TypeOK, StageInv
<1>8. CASE Acted(r)
  BY <1>8 DEF Acted, Advance, TypeOK, Phases, StageInv
<1>9. CASE Respond(r)
  BY <1>9 DEF Respond, Advance, TypeOK, Phases, StageInv
<1>10. CASE Commit(r)
  BY <1>10 DEF Commit, Advance, TypeOK, Phases, StageInv, OwnInv, Change, Request
<1>11. CASE AfterCommit(r)
  BY <1>11 DEF AfterCommit, TypeOK, Phases, txnVars, StageInv
<1>12. QED
  BY <1>1, <1>2, <1>3, <1>4, <1>5, <1>6, <1>7, <1>8, <1>9, <1>10, <1>11
     DEF OneStep

LEMMA OwnStep ==
    ASSUME IInv, NEW r \in Requests, OneStep(r)
    PROVE  OwnInv'
<1> USE PlaceholderAssumption DEF IInv, OwnInv
<1>1. CASE Refused(r)
  BY <1>1 DEF Refused, Fail, Advance, TypeOK, StageInv, Committed
<1>2. CASE Skipped(r)
  BY <1>2 DEF Skipped, Advance, TypeOK, txnVars, StageInv, Committed
<1>3. CASE Entered(r)
  BY <1>3 DEF Entered, Advance, TypeOK, txnVars, Committed
<1>4. CASE Begin(r)
  BY <1>4 DEF Begin, Advance, TypeOK, Committed
<1>5. CASE ResolveScopes(r)
  BY <1>5 DEF ResolveScopes, Advance, TypeOK, txnVars, Committed
<1>6. CASE FoundPrior(r)
  BY <1>6 DEF FoundPrior, Advance, TypeOK, Committed
<1>7. CASE RunHook(r, "before") \/ RunHook(r, "after")
  BY <1>7 DEF RunHook, TypeOK, Committed
<1>8. CASE Acted(r)
  <2>1. Accepts(request[r], Committed(r))
    BY <1>8, FoundIsAccepted DEF Acted
  <2>2. Written(request[r], Committed(r), r, SoftDelete) # Untouched
    BY <2>1, CommittedRow, WrittenRow, FlagsAssumption
  <2>3. own'[r] = Written(request[r], Committed(r), r, SoftDelete)
        /\ \A q \in Requests \ {r} : own'[q] = own[q]
    BY <1>8 DEF Acted, TypeOK
  <2>4. \A q \in Requests : Committed(q)' = Committed(q)
    BY <1>8 DEF Acted, Advance, Committed
  <2>5. \A q \in Requests \ {r} :
            own[q] # Untouched => request[q].id # request[r].id
    BY <1>8 DEF Acted, Locked
  <2>6. QED
    BY <1>8, <2>1, <2>2, <2>3, <2>4, <2>5 DEF Acted, Advance, TypeOK
<1>9. CASE Respond(r)
  BY <1>9, ResponseIsEvent DEF Respond, Advance, TypeOK, Committed
<1>10. CASE Commit(r)
  <2>1. \A q \in Requests \ {r} : own[q] # Untouched => Committed(q)' = Committed(q)
    BY <1>10 DEF Commit, Advance, TypeOK, Committed, Request
  <2>2. own'[r] = Untouched /\ \A q \in Requests \ {r} : own'[q] = own[q]
    BY <1>10 DEF Commit, TypeOK
  <2>3. QED
    BY <1>10, <2>1, <2>2 DEF Commit, Advance, TypeOK
<1>11. CASE AfterCommit(r)
  BY <1>11 DEF AfterCommit, TypeOK, txnVars, Committed
<1>12. QED
  BY <1>1, <1>2, <1>3, <1>4, <1>5, <1>6, <1>7, <1>8, <1>9, <1>10, <1>11
     DEF OneStep

LEMMA EventStep ==
    ASSUME IInv, NEW r \in Requests, OneStep(r)
    PROVE  EventInv'
<1> USE PlaceholderAssumption DEF IInv, EventInv
<1>1. CASE Refused(r)
  BY <1>1 DEF Refused, Fail, Advance, TypeOK
<1>2. CASE Skipped(r)
  BY <1>2 DEF Skipped, Advance, TypeOK, txnVars, StageInv
<1>3. CASE Entered(r) \/ ResolveScopes(r)
  BY <1>3 DEF Entered, ResolveScopes, Advance, TypeOK, txnVars
<1>4. CASE Begin(r) \/ FoundPrior(r) \/ Acted(r)
  BY <1>4 DEF Begin, FoundPrior, Acted, Advance, TypeOK
<1>5. CASE RunHook(r, "before") \/ RunHook(r, "after")
  BY <1>5 DEF RunHook, TypeOK
<1>6. CASE Respond(r)
  BY <1>6 DEF Respond, Advance, TypeOK, StageInv
<1>7. CASE Commit(r)
  BY <1>7 DEF Commit, Advance, TypeOK, StageInv, OwnInv
<1>8. CASE AfterCommit(r)
  BY <1>8 DEF AfterCommit, TypeOK, txnVars
<1>9. QED
  BY <1>1, <1>2, <1>3, <1>4, <1>5, <1>6, <1>7, <1>8 DEF OneStep

(* The writes of a commit that took effect are the request's own.          *)
LEMMA FateStep ==
    ASSUME IInv, NEW r \in Requests, OneStep(r)
    PROVE  HookWritesShareFate'
<1> USE DEF IInv, HookWritesShareFate
<1>1. CASE Refused(r)
  BY <1>1 DEF Refused, Fail, Advance, TypeOK, StageInv
<1>2. CASE Commit(r)
  <2>1. answer[r] = "pending"
    BY <1>2 DEF Commit, StageInv
  <2>2. \A q \in Requests \ {r} : answer'[q] = answer[q]
    BY <1>2 DEF Commit, Advance, TypeOK
  <2>3. answer'[r] = IF committed[r] = NoEvent THEN "ignored" ELSE "ok"
    BY <1>2 DEF Commit, TypeOK
  <2>4. audit' \subseteq audit \cup {r}
    BY <1>2 DEF Commit
  <2>5. ASSUME NEW i \in Ids, NEW q \in Requests, rows'[i] # NoRow, rows'[i].by = q
        PROVE  answer'[q] = "ok"
    <3>1. CASE own[r] = Untouched \/ i # request[r].id
      <4>1. rows'[i] = rows[i]
        BY <1>2, <3>1 DEF Commit, TypeOK, Request
      <4>2. answer[q] = "ok"
        BY <2>5, <4>1
      <4>3. QED
        BY <2>1, <2>2, <4>2
    <3>2. CASE own[r] # Untouched /\ i = request[r].id
      <4>1. rows'[i] = own[r] /\ committed[r] # NoEvent
        BY <1>2, <3>2 DEF Commit, TypeOK, OwnInv
      <4>2. own[r].by = r
        <5>1. Accepts(request[r], Committed(r))
              /\ own[r] = Written(request[r], Committed(r), r, SoftDelete)
          BY <3>2 DEF OwnInv
        <5>2. own[r] # NoRow
          BY <2>5, <3>2, <4>1
        <5>3. QED
          BY <5>1, <5>2, CommittedRow, WrittenRow, FlagsAssumption
      <4>3. QED
        BY <2>3, <2>5, <4>1, <4>2
    <3>3. QED
      BY <3>1, <3>2
  <2>6. QED
    BY <2>1, <2>2, <2>3, <2>4, <2>5
<1>3. CASE ~ Refused(r) /\ ~ Commit(r)
  BY <1>3 DEF OneStep, Skipped, Entered, Begin, ResolveScopes, FoundPrior,
              RunHook, Acted, Respond, AfterCommit, txnVars
<1>4. QED
  BY <1>1, <1>2, <1>3

LEMMA PriorStep ==
    ASSUME IInv, NEW r \in Requests, OneStep(r)
    PROVE  PriorInv'
<1> USE PlaceholderAssumption DEF IInv, PriorInv, PriorIsReplaced, Open
<1>1. CASE Refused(r)
  BY <1>1 DEF Refused, Fail, Advance, TypeOK, Committed
<1>2. CASE Skipped(r)
  BY <1>2 DEF Skipped, Advance, TypeOK, txnVars, Committed
<1>3. CASE Entered(r)
  BY <1>3 DEF Entered, Advance, TypeOK, txnVars, Committed
<1>4. CASE Begin(r)
  BY <1>4 DEF Begin, Advance, TypeOK, Committed, OwnInv
<1>5. CASE ResolveScopes(r)
  BY <1>5 DEF ResolveScopes, Advance, TypeOK, txnVars, Committed
<1>6. CASE FoundPrior(r)
  <2>1. prior'[r] = Seen(r) /\ \A q \in Requests \ {r} : prior'[q] = prior[q]
    BY <1>6 DEF FoundPrior, TypeOK
  <2>2. own[r] = Untouched /\ change[r] = NoChange
    BY <1>6 DEF FoundPrior, OwnInv, StageInv
  <2>3. QED
    BY <1>6, <2>1, <2>2 DEF FoundPrior, Advance, TypeOK, Committed, Seen
<1>7. CASE RunHook(r, "before") \/ RunHook(r, "after")
  BY <1>7 DEF RunHook, TypeOK, Committed
<1>8. CASE Acted(r)
  <2>1. isolation # "readCommitted" /\ request[r].op \in WithPrior
            => prior[r] = Committed(r)
    BY <1>8, IsolationAssumption DEF Acted, Clashes, TypeOK
  <2>2. QED
    BY <1>8, <2>1 DEF Acted, Advance, TypeOK, Committed
<1>9. CASE Respond(r)
  BY <1>9 DEF Respond, Advance, TypeOK, Committed
<1>10. CASE Commit(r)
  <2>1. \A q \in Requests \ {r} : own[q] # Untouched => Committed(q)' = Committed(q)
    BY <1>10 DEF Commit, Advance, TypeOK, Committed, Request, OwnInv
  <2>2. isolation = "serial" =>
            \A q \in Requests \ {r} : phase[q] \notin Open
    BY <1>10 DEF Commit
  <2>3. \A q \in Requests \ {r} : /\ own'[q] = own[q] /\ change'[q] = change[q]
                                  /\ phase'[q] = phase[q]
    BY <1>10 DEF Commit, Advance, TypeOK
  <2>4. own'[r] = Untouched /\ phase'[r] \in {"emit", "done"}
    BY <1>10 DEF Commit, Advance, TypeOK
  <2>5. own[r] # Untouched => change'[r].before = Committed(r)
    BY <1>10 DEF Commit, TypeOK, Committed
  <2>6. UNCHANGED <<isolation, request, prior, snapshot>>
    BY <1>10 DEF Commit, Advance
  <2>7. own[r] = Untouched => change'[r] = NoChange
    BY <1>10 DEF Commit, TypeOK, StageInv
  <2>8. PriorIsReplaced'
    <3>1. ASSUME NEW q \in Requests, isolation # "readCommitted",
                 change'[q] # NoChange, request[q].op \in WithPrior
          PROVE  prior[q] = change'[q].before
      <4>1. CASE q = r
        BY <2>5, <2>7, <3>1, <4>1
      <4>2. CASE q # r
        BY <2>3, <3>1, <4>2
      <4>3. QED
        BY <4>1, <4>2
    <3>2. QED
      BY <2>6, <3>1
  <2>9. QED
    BY <2>1, <2>2, <2>3, <2>4, <2>6, <2>8
<1>11. CASE AfterCommit(r)
  BY <1>11 DEF AfterCommit, TypeOK, txnVars, Committed
<1>12. QED
  BY <1>1, <1>2, <1>3, <1>4, <1>5, <1>6, <1>7, <1>8, <1>9, <1>10, <1>11
     DEF OneStep

-----------------------------------------------------------------------------
LEMMA InvInit == Init => IInv
<1> SUFFICES ASSUME Init
             PROVE  IInv
  OBVIOUS
<1>1. TypeOK
  <2>1. [tenant : Owners, deleted : {FALSE, SoftDelete}, by : {Init0}]
            \subseteq Row
    BY FlagsAssumption DEF Row, Owners
  <2>2. rows \in [Ids -> Row \cup {NoRow}]
    BY <2>1 DEF Init
  <2>3. QED
    BY <2>2, HookCountAssumption DEF Init, TypeOK, Phases
<1>2. StageInv /\ EventInv
  BY DEF Init, StageInv, EventInv
<1>3. OwnInv /\ PriorInv
  BY DEF Init, OwnInv, PriorInv, PriorIsReplaced, Open
<1>4. HookWritesShareFate
  BY Init0Assumption DEF Init, HookWritesShareFate
<1>5. QED
  BY <1>1, <1>2, <1>3, <1>4 DEF IInv

LEMMA InvStep == IInv /\ [Next]_vars => IInv'
<1>1. ASSUME IInv, NEW r \in Requests, OneStep(r)
      PROVE  IInv'
  BY <1>1, TypeStep, StageStep, OwnStep, EventStep, PriorStep, FateStep
     DEF IInv
<1>2. ASSUME IInv, UNCHANGED vars
      PROVE  IInv'
  BY <1>2 DEF vars, txnVars, IInv, TypeOK, StageInv, OwnInv, EventInv, PriorInv,
              PriorIsReplaced, HookWritesShareFate, Committed
<1>3. QED
  BY <1>1, <1>2, StepKinds

LEMMA InvHolds == Spec => []IInv
BY InvInit, InvStep, PTL DEF Spec

(* Every variable of the lifecycle keeps its type.                         *)
THEOREM TypeCorrect == Spec => []TypeOK
<1>1. IInv => TypeOK
  BY DEF IInv
<1>2. QED
  BY <1>1, InvHolds, PTL

(* No afterCommit hook hears of anything that is not committed.            *)
THEOREM TruthfulEvents == Spec => []EventTellsTheTruth
<1>1. IInv => EventTellsTheTruth
  BY HookCountAssumption DEF IInv, StageInv, EventInv, EventTellsTheTruth, TypeOK, Phases
<1>2. QED
  BY <1>1, InvHolds, PTL

(* The prior state of the event is the state the mutation replaced, over   *)
(* every adapter but READ COMMITTED.                                       *)
THEOREM TruthfulPrior == Spec => []PriorIsReplaced
<1>1. IInv => PriorIsReplaced
  BY DEF IInv, PriorInv
<1>2. QED
  BY <1>1, InvHolds, PTL

(* A refused request leaves nothing behind.                                *)
THEOREM SharedFate == Spec => []HookWritesShareFate
<1>1. IInv => HookWritesShareFate
  BY DEF IInv
<1>2. QED
  BY <1>1, InvHolds, PTL

(* Every hook hears of every committed mutation, and of nothing else.      *)
THEOREM CompleteDelivery == Spec => []EveryHookIsTold
<1>1. IInv => EveryHookIsTold
  BY DEF IInv, StageInv, EveryHookIsTold
<1>2. QED
  BY <1>1, InvHolds, PTL
-----------------------------------------------------------------------------
(* Only a commit that acted changes rows, and it changes one.              *)
LEMMA RowsChange ==
    ASSUME IInv, NEW r \in Requests, OneStep(r)
    PROVE  \/ rows' = rows /\ change' = change
           \/ /\ own[r] # Untouched
              /\ request' = request
              /\ rows' = [rows EXCEPT ![request[r].id] = own[r]]
              /\ change'[r] # change[r]
              /\ \A q \in Requests \ {r} : change'[q] = change[q]
<1>1. CASE Commit(r) /\ own[r] # Untouched
  <2>1. change[r] = NoChange
    BY <1>1 DEF IInv, StageInv, Commit
  <2>2. change'[r] = [before |-> Committed(r), after |-> own[r]]
        /\ \A q \in Requests \ {r} : change'[q] = change[q]
    BY <1>1 DEF IInv, TypeOK, Commit, Committed
  <2>3. change'[r] \in Change
    <3>1. own[r] \in Row \cup {NoRow} /\ Committed(r) \in Row \cup {NoRow}
      BY <1>1, CommittedRow DEF IInv, TypeOK
    <3>2. QED
      BY <2>2, <3>1 DEF Change
  <2>4. QED
    BY <1>1, <2>1, <2>2, <2>3, PlaceholderAssumption DEF Commit, Advance
<1>2. CASE Commit(r) /\ own[r] = Untouched
  BY <1>2 DEF Commit, IInv, TypeOK, Request
<1>3. CASE ~ Commit(r)
  BY <1>3 DEF OneStep, Refused, Fail, Skipped, Entered, Begin, ResolveScopes,
              FoundPrior, RunHook, Acted, Respond, AfterCommit
<1>4. QED
  BY <1>1, <1>2, <1>3

LEMMA SelectedRowsChange ==
    ASSUME IInv, NEW r \in Requests, OneStep(r),
           NEW q \in Requests, NEW i \in Ids,
           change'[q] # change[q], rows'[i] # rows[i]
    PROVE  /\ rows[i] # NoRow => rows[i].tenant = request[q].tenant
           /\ rows[i] # NoRow /\ rows[i].deleted => request[q].op = "restore"
<1>1. own[r] # Untouched /\ q = r
  BY RowsChange
<1>2. i = request[r].id /\ rows'[i] = own[r] /\ rows[i] = Committed(r)
  BY RowsChange DEF IInv, TypeOK, Committed
<1>3. Accepts(request[r], Committed(r))
      /\ own[r] = Written(request[r], Committed(r), r, SoftDelete)
  BY <1>1 DEF IInv, OwnInv
<1>4. QED
  BY <1>1, <1>2, <1>3, CommittedRow, WrittenRow, FlagsAssumption DEF IInv

(* A request acts on no row but one that its scopes select at that moment. *)
THEOREM Confinement == Spec => ScopesHoldAtTheWrite
<1>1. IInv /\ [Next]_vars =>
        [\A r \in Requests, i \in Ids :
            (/\ change'[r] # change[r]
             /\ rows[i] # NoRow
             /\ rows'[i] # rows[i]) => rows[i].tenant = request[r].tenant]_vars
  BY StepKinds, SelectedRowsChange
<1>2. QED
  BY <1>1, InvHolds, PTL DEF Spec, ScopesHoldAtTheWrite

(* What was soft deleted comes back by a restore or not at all.            *)
THEOREM Revival == Spec => OnlyRestoreRevives
<1>1. ASSUME IInv, NEW r \in Requests, OneStep(r), NEW i \in Ids,
             rows[i] # NoRow, rows[i].deleted, rows'[i] # rows[i]
      PROVE  change'[r] # change[r] /\ request[r].op = "restore"
  <2>1. change'[r] # change[r]
    BY <1>1, RowsChange
  <2>2. QED
    BY <1>1, <2>1, SelectedRowsChange
<1>2. IInv /\ [Next]_vars =>
        [\A i \in Ids :
            (rows[i] # NoRow /\ rows[i].deleted /\ rows'[i] # rows[i]) =>
                \E r \in Requests :
                    change'[r] # change[r] /\ request[r].op = "restore"]_vars
  BY <1>1, StepKinds DEF vars
<1>3. QED
  BY <1>2, InvHolds, PTL DEF Spec, OnlyRestoreRevives

-----------------------------------------------------------------------------
LEMMA ContractInit == Init => Contract!Init
<1> SUFFICES ASSUME Init
             PROVE  Contract!Init
  OBVIOUS
<1>1. [tenant : Owners, deleted : {FALSE, SoftDelete}, by : {Init0}]
        \subseteq Row
  BY FlagsAssumption DEF Row, Owners
<1>2. rows \in [Ids -> Row \cup {NoRow}]
  BY <1>1 DEF Init
<1>3. Contract!Request = Request /\ Contract!Row = Row
  BY DEF Row, Contract!Row, Request, Contract!Request, Ops, Contract!Ops,
         Owners, Contract!Owners
<1>4. QED
  BY <1>2, <1>3 DEF Init, Contract!Init

LEMMA ContractStep ==
    ASSUME IInv, NEW r \in Requests, OneStep(r)
    PROVE  Contract!Next \/ UNCHANGED Contract!contractVars
<1> USE DEF IInv, Contract!contractVars
<1>1. CASE Refused(r)
  <2>1. PICK status \in Contract!Refusals : Fail(r, status)
    BY <1>1 DEF Refused, Contract!Refusals
  <2>2. answer[r] = "pending"
    BY <1>1 DEF Refused, StageInv
  <2>3. Contract!Refuse(r, status)
    BY <2>1, <2>2 DEF Fail, Advance, Contract!Refuse
  <2>4. QED
    BY <2>3 DEF Contract!Next
<1>2. CASE Commit(r)
  <2>1. answer[r] = "pending" /\ delivered' = delivered
    BY <1>2 DEF Commit, Advance, StageInv
  <2>2. audit' \in {audit, audit \cup {r}}
    BY <1>2 DEF Commit
  <2>3. CASE own[r] = Untouched
    <3>1. rows' = rows /\ answer' = [answer EXCEPT ![r] = "ignored"]
      BY <1>2, <2>3 DEF Commit, OwnInv, TypeOK, Request
    <3>2. /\ request[r].op = "delete" /\ IgnoreMissing
          /\ request' = request
      BY <1>2, <2>3 DEF Commit, Advance, OwnInv
    <3>3. Contract!Ignore(r)
      BY <2>1, <2>2, <3>1, <3>2 DEF Contract!Ignore
    <3>4. QED
      BY <3>3 DEF Contract!Next
  <2>4. CASE own[r] # Untouched
    <3>1. /\ rows' = [rows EXCEPT ![request[r].id] = own[r]]
          /\ answer' = [answer EXCEPT ![r] = "ok"]
      BY <1>2, <2>4 DEF Commit, OwnInv
    <3>2. /\ Accepts(request[r], rows[request[r].id])
          /\ own[r] = Written(request[r], rows[request[r].id], r, SoftDelete)
      BY <2>4 DEF OwnInv, Committed
    <3>3. /\ Contract!Accepts(request[r], rows[request[r].id])
          /\ own[r] = Contract!Written(request[r], rows[request[r].id], r,
                                       SoftDelete)
      BY <3>2 DEF Accepts, Contract!Accepts, Matches, Contract!Matches,
                  Written, Contract!Written, Overwritten, Contract!Overwritten
    <3>4. request' = request
      BY <1>2 DEF Commit, Advance
    <3>5. Contract!Succeed(r)
      BY <2>1, <2>2, <3>1, <3>3, <3>4 DEF Contract!Succeed
    <3>6. QED
      BY <3>5 DEF Contract!Next
  <2>5. QED
    BY <2>3, <2>4
<1>3. CASE AfterCommit(r)
  <2>1. Contract!Deliver(r)
    BY <1>3 DEF AfterCommit, StageInv, Contract!Deliver
  <2>2. QED
    BY <2>1 DEF Contract!Next
<1>4. CASE ~ Refused(r) /\ ~ Commit(r) /\ ~ AfterCommit(r)
  BY <1>4 DEF OneStep, Skipped, Entered, Begin, ResolveScopes, FoundPrior,
              RunHook, Acted, Respond, Advance
<1>5. QED
  BY <1>1, <1>2, <1>3, <1>4

(* The service keeps the contract of its mutations over every adapter.     *)
THEOREM Refinement == Spec => KeepsContract
<1>1. ASSUME UNCHANGED vars
      PROVE  UNCHANGED Contract!contractVars
  BY <1>1 DEF vars, Contract!contractVars
<1>2. IInv /\ [Next]_vars => [Contract!Next]_Contract!contractVars
  BY <1>1, StepKinds, ContractStep
<1>3. QED
  BY <1>2, ContractInit, InvHolds, PTL DEF Spec, KeepsContract, Contract!Spec
=============================================================================
