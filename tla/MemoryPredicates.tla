-------------------------- MODULE MemoryPredicates --------------------------
(***************************************************************************)
(* predicateTruth of the memory adapter: the recursion over the parts of a *)
(* predicate, with the value that Evaluation has wherever it is checked.   *)
(***************************************************************************)
EXTENDS Predicates

RECURSIVE MemoryTruth(_, _)
MemoryTruth(row, p) == NodeTruth(MemoryTruth, row, p)
=============================================================================
