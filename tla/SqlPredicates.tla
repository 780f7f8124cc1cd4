--------------------------- MODULE SqlPredicates ----------------------------
(***************************************************************************)
(* The compilers' recursion over the parts of a predicate, with the value  *)
(* that Compilation has wherever it is checked.                            *)
(***************************************************************************)
EXTENDS CompiledPredicates, MemoryPredicates

RECURSIVE SqlTruth(_, _, _)
SqlTruth(adapter, row, p) == SqlNodeTruth(SqlTruth, adapter, row, p)
=============================================================================
