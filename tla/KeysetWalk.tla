----------------------------- MODULE KeysetWalk -----------------------------
(***************************************************************************)
(* What a client that follows nextCursor is promised.                      *)
(*                                                                         *)
(* Rows lie at positions of a strict total order, or are Absent: not       *)
(* stored, or not selected by the request.  A walk fetches pages, each a   *)
(* run of the rows after the cursor, which then is the position of the     *)
(* last of them; the walk ends with a page that nothing follows.  Between  *)
(* two pages anybody may write any row.                                    *)
(***************************************************************************)
CONSTANTS
    Rows,           \* what identifies a row
    Positions,      \* where rows may lie
    Before(_, _),   \* the order of positions
    Absent,
    Start           \* the cursor of a walk that has fetched nothing

\* Before is a strict total order of the places, none of them a marker.
IsStrictOrder(places) ==
    /\ Absent \notin places /\ Start \notin places
    /\ \A p, q \in places : Before(p, q) \in BOOLEAN
    /\ \A p \in places : ~Before(p, p)
    /\ \A p, q, s \in places : Before(p, q) /\ Before(q, s) => Before(p, s)
    /\ \A p, q \in places : p = q \/ Before(p, q) \/ Before(q, p)

VARIABLES
    at,             \* at[r]: the position of r
    walk,           \* "none", "going" or "ended"
    cursor,         \* the position of the last row fetched
    shown,          \* rows that some page held
    again,          \* rows that a page held although an earlier one had
    steady          \* rows not written since the walk began

vars == <<at, walk, cursor, shown, again, steady>>

Present == {r \in Rows : at[r] # Absent}
NoneShareAPlace ==
    \A r, s \in Rows : r # s /\ at[r] = at[s] => at[r] = Absent
After == {r \in Present : cursor = Start \/ Before(cursor, at[r])}

Init ==
    /\ at = [r \in Rows |-> Absent]
    /\ walk = "none" /\ cursor = Start
    /\ shown = {} /\ again = {} /\ steady = Rows

Begin ==
    /\ walk = "none"
    /\ walk' = "going"
    /\ at' \in [Rows -> {Absent} \cup Positions]
    /\ NoneShareAPlace'
    /\ UNCHANGED <<cursor, shown, again, steady>>

IsRun(page) ==
    /\ page \subseteq After
    /\ \A r \in page, s \in After : Before(at[s], at[r]) => s \in page

Ends(page, r) ==
    r \in page /\ \A s \in page : s = r \/ Before(at[s], at[r])

Fetch(page) ==
    /\ walk = "going"
    /\ shown' = shown \cup page
    /\ again' = again \cup (page \cap shown)
    /\ UNCHANGED <<at, steady>>
    /\ IsRun(page)
    /\ page = {} => After = {}
    /\ IF page = {} THEN cursor' = cursor
                    ELSE \E r \in page : Ends(page, r) /\ cursor' = at[r]
    /\ walk' = IF page = After THEN "ended" ELSE "going"

Write(r) ==
    /\ walk # "none"
    /\ steady' = steady \ {r}
    /\ UNCHANGED <<walk, cursor, shown, again>>
    /\ at' \in [Rows -> {Absent} \cup Positions]
    /\ \A s \in Rows \ {r} : at'[s] = at[s]
    /\ NoneShareAPlace'

Next ==
    \/ Begin
    \/ \E page \in SUBSET Rows : Fetch(page)
    \/ \E r \in Rows : Write(r)

Spec == Init /\ [][Next]_vars

(* A row that nobody wrote during the walk is shown exactly once: no page  *)
(* repeats it, and when the walk has ended some page held it, whatever was *)
(* inserted, deleted or moved around it meanwhile.                         *)
EveryUntouchedRowOnce ==
    /\ steady \cap again = {}
    /\ walk = "ended" => Present \cap steady \subseteq shown
=============================================================================
