-------------------------- MODULE KeysetWalkProofs --------------------------
(***************************************************************************)
(* The promise of KeysetWalk, for every set of rows and every order.       *)
(*                                                                         *)
(* The inductive invariant says where the cursor stands: among the rows    *)
(* that nobody wrote, those shown are those not after it.  It needs that   *)
(* no two rows share a position, which is what the id fields at the end of *)
(* every order are for: of two rows in one place the second could be cut   *)
(* off by the end of a page and then lie neither before nor after.         *)
(***************************************************************************)
EXTENDS KeysetWalk, TLAPS

TypeOK ==
    /\ at \in [Rows -> {Absent} \cup Positions]
    /\ walk \in {"none", "going", "ended"}
    /\ cursor \in Positions \cup {Start}
    /\ shown \subseteq Rows /\ again \subseteq Rows /\ steady \subseteq Rows

CursorDivides ==
    \A r \in Present \cap steady : r \in shown <=> r \notin After

NothingBefore == walk = "none" => shown = {} /\ cursor = Start

Inv == /\ TypeOK /\ NoneShareAPlace /\ CursorDivides /\ NothingBefore
       /\ EveryUntouchedRowOnce

(* Init establishes the invariant.                                         *)
LEMMA InitInv == Init => Inv
  BY DEF Init, Inv, TypeOK, NoneShareAPlace, CursorDivides, NothingBefore,
         EveryUntouchedRowOnce, Present, After

(* A page moves the line between what is shown and what is not.            *)
LEMMA FetchInv == ASSUME IsStrictOrder(Positions), Inv,
                        NEW page \in SUBSET Rows, Fetch(page)
                 PROVE  Inv'
<1> USE DEF IsStrictOrder
<1>1. TypeOK'
  BY DEF Inv, TypeOK, Fetch, Ends, IsRun, After, Present
<1>2. NoneShareAPlace' /\ NothingBefore' /\ Present' = Present
  BY DEF Inv, NoneShareAPlace, NothingBefore, Fetch, Present
<1>3. CursorDivides'
  <2>1. CASE page = {}
    BY <2>1 DEF Inv, Fetch, CursorDivides, After, Present
  <2>2. CASE page # {}
    <3>1. PICK last \in page : Ends(page, last) /\ cursor' = at[last]
      BY <2>2 DEF Fetch
    <3>2. last \in Present /\ at[last] \in Positions /\ cursor' # Start
      BY <3>1 DEF Fetch, IsRun, After, Present, Inv, TypeOK
    <3>3. \A s \in Present : s \in page <=> s \in After /\ s \notin After'
      <4>1. ASSUME NEW s \in page PROVE s \in After /\ s \notin After'
        BY <3>1, <3>2, <4>1 DEF Fetch, IsRun, After, Present, Ends, Inv, TypeOK
      <4>2. ASSUME NEW s \in Present, s \in After, s \notin After'
            PROVE  s \in page
        <5>1. at[s] \in Positions /\ ~Before(at[last], at[s])
          BY <3>1, <3>2, <4>2 DEF Fetch, After, Present, Inv, TypeOK
        <5>2. s = last \/ Before(at[s], at[last])
          BY <3>2, <5>1 DEF Inv, NoneShareAPlace, Present
        <5> QED BY <3>1, <4>2, <5>2 DEF Fetch, IsRun
      <4> QED BY <4>1, <4>2
    <3>4. \A s \in Present : s \in After' => s \in After
      <4>1. SUFFICES ASSUME NEW s \in Present, s \in After', cursor # Start
                     PROVE  Before(cursor, at[s])
        BY DEF After, Present, Fetch
      <4>2. Before(at[last], at[s]) /\ at[s] \in Positions
        BY <4>1, <3>1, <3>2 DEF After, Present, Fetch, Inv, TypeOK
      <4>3. Before(cursor, at[last]) /\ cursor \in Positions
        BY <3>1, <4>1 DEF Fetch, IsRun, After, Inv, TypeOK
      <4> QED BY <3>2, <4>2, <4>3
    <3> QED BY <3>3, <3>4, <1>2 DEF Inv, Fetch, CursorDivides
  <2> QED BY <2>1, <2>2
<1>4. EveryUntouchedRowOnce'
  <2>1. page \cap steady \cap shown = {}
    BY DEF Inv, Fetch, IsRun, CursorDivides, After
  <2>2. (steady \cap again)' = {}
    BY <2>1 DEF Inv, Fetch, EveryUntouchedRowOnce
  <2>3. ASSUME walk' = "ended" PROVE Present \cap steady \subseteq shown'
    BY <2>3 DEF Inv, Fetch, CursorDivides
  <2> QED BY <2>2, <2>3, <1>2 DEF EveryUntouchedRowOnce, Fetch
<1> QED BY <1>1, <1>2, <1>3, <1>4 DEF Inv

(* A write only takes the row it writes out of the promise.                *)
LEMMA WriteInv == ASSUME Inv, NEW r \in Rows, Write(r) PROVE Inv'
<1>1. TypeOK' /\ NothingBefore' /\ NoneShareAPlace'
  BY DEF Inv, TypeOK, Write, NothingBefore
<1>2. \A s \in steady' : s # r /\ s \in steady /\ at'[s] = at[s]
  BY DEF Inv, TypeOK, Write
<1>3. \A s \in steady' : /\ s \in Present' <=> s \in Present
                         /\ s \in After' <=> s \in After
  BY <1>2 DEF Present, After, Write, Inv, TypeOK
<1>4. CursorDivides' /\ EveryUntouchedRowOnce'
  BY <1>2, <1>3 DEF Inv, CursorDivides, EveryUntouchedRowOnce, Write
<1> QED BY <1>1, <1>4 DEF Inv

(* Every step keeps the invariant.                                         *)
LEMMA NextInv == IsStrictOrder(Positions) /\ Inv /\ [Next]_vars => Inv'
<1>1. ASSUME Inv, Begin PROVE Inv'
  BY <1>1 DEF Inv, Begin, TypeOK, CursorDivides, NothingBefore,
              EveryUntouchedRowOnce, After, Present
<1>2. ASSUME Inv, UNCHANGED vars PROVE Inv'
  BY <1>2 DEF Inv, vars, TypeOK, NoneShareAPlace, CursorDivides,
              NothingBefore, EveryUntouchedRowOnce, After, Present
<1>3. ASSUME IsStrictOrder(Positions), Inv, NEW page \in SUBSET Rows, Fetch(page)
      PROVE  Inv'
  BY <1>3, FetchInv
<1> QED BY <1>1, <1>2, <1>3, WriteInv DEF Next

(* A walk shows every row that nobody wrote meanwhile exactly once, for    *)
(* every set of rows, every strict order of positions and every page size. *)
THEOREM UntouchedRowsOnce ==
    ASSUME IsStrictOrder(Positions) PROVE Spec => []EveryUntouchedRowOnce
<1>1. Inv /\ [Next]_vars => Inv'
  BY NextInv
<1>2. Inv => EveryUntouchedRowOnce
  BY DEF Inv
<1> QED BY InitInv, <1>1, <1>2, PTL DEF Spec
=============================================================================
