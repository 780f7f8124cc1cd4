-------------------------- MODULE MCMemoryAdapter --------------------------
(* MemoryAdapter with records of two fields, `id` and `key`, each of them  *)
(* unique; `key` is nullable.                                              *)
EXTENDS MemoryAdapter, TLC

CONSTANTS c1, c2, c3, s1, s2, k, null

MCFields == {"id", "key"}
MCUnique == {{"id"}, {"key"}}
MCRecord(id, key) == [f \in MCFields |-> IF f = "id" THEN id ELSE key]
MCRecords == {MCRecord(1, k), MCRecord(2, k), MCRecord(2, null)}
MCOneRecord == {MCRecord(1, null)}
MCSymmetry == Permutations({s1, s2}) \cup Permutations(Clients)
=============================================================================
