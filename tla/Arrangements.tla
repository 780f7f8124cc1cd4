---------------------------- MODULE Arrangements ----------------------------
(***************************************************************************)
(* Sorting.  An order on a set is the set of pairs <<x, y>> where x comes  *)
(* before y; the arrangement of a finite set that the order totally orders *)
(* is the sequence of its elements in which each comes before the next.    *)
(***************************************************************************)
EXTENDS Integers, Sequences, FiniteSets

Arranged(S, before) ==
    CHOOSE s \in [1..Cardinality(S) -> S] :
        \A i, j \in 1..Cardinality(S) : i < j => <<s[i], s[j]>> \in before

\* The places of a sequence, in sequence.
InSequence(places) ==
    Arranged(places, {p \in places \X places : p[1] < p[2]})
=============================================================================
