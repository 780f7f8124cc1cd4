-------------------------- MODULE MCCrudLifecycle --------------------------
(* Two requests for one identity, two tenants and every adapter.           *)
EXTENDS CrudLifecycle, TLC

CONSTANTS r1, r2, t1, t2

MCAll == {"serial", "readCommitted", "repeatableRead"}
MCReadCommitted == {"readCommitted"}
MCSymmetry == Permutations(Requests) \cup Permutations(Tenants)
=============================================================================
