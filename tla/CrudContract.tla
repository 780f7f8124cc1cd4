---------------------------- MODULE CrudContract ----------------------------
(***************************************************************************)
(* What a mutation of CrudService promises its caller, whatever the        *)
(* isolation level of the adapter: it is answered once; it either does     *)
(* what was requested, to a row that the request selects at that moment,   *)
(* in one step and together with what its hooks wrote through the session, *)
(* or it leaves no trace; and the afterCommit hooks hear of exactly the    *)
(* mutations that took effect, each hook once.  What was requested is part *)
(* of the contract: `request` is given at the start and never changes.     *)
(***************************************************************************)
EXTENDS CrudRows, Naturals

CONSTANTS HookCount, SoftDelete, IgnoreMissing

VARIABLES request, rows, audit, answer, delivered

contractVars == <<request, rows, audit, answer, delivered>>

Refusals == {"http", "400", "404", "409", "500"}

Init ==
    /\ request \in [Requests -> Request]
    /\ rows \in [Ids -> Row \cup {NoRow}]
    /\ audit = {}
    /\ answer = [r \in Requests |-> "pending"]
    /\ delivered = [r \in Requests |-> 0]

\* The mutation takes effect: on the row as it is now, not as it was when
\* the request looked at it.
Succeed(r) ==
    /\ answer[r] = "pending"
    /\ Accepts(request[r], rows[request[r].id])
    /\ rows' = [rows EXCEPT ![request[r].id] =
                    Written(request[r], @, r, SoftDelete)]
    /\ audit' \in {audit, audit \cup {r}}
    /\ answer' = [answer EXCEPT ![r] = "ok"]
    /\ UNCHANGED <<request, delivered>>

Refuse(r, status) ==
    /\ answer[r] = "pending"
    /\ answer' = [answer EXCEPT ![r] = status]
    /\ UNCHANGED <<request, rows, audit, delivered>>

\* A delete that ignores a missing row.  Its transaction commits, so if the
\* row vanished under its hooks their writes stay.
Ignore(r) ==
    /\ answer[r] = "pending"
    /\ request[r].op = "delete" /\ IgnoreMissing
    /\ answer' = [answer EXCEPT ![r] = "ignored"]
    /\ audit' \in {audit, audit \cup {r}}
    /\ UNCHANGED <<request, rows, delivered>>

Deliver(r) ==
    /\ answer[r] = "ok"
    /\ delivered[r] < HookCount
    /\ delivered' = [delivered EXCEPT ![r] = @ + 1]
    /\ UNCHANGED <<request, rows, audit, answer>>

Next ==
    \E r \in Requests :
        \/ Succeed(r)
        \/ \E status \in Refusals : Refuse(r, status)
        \/ Ignore(r)
        \/ Deliver(r)

Spec == Init /\ [][Next]_contractVars
=============================================================================
