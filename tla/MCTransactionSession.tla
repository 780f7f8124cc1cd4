------------------------ MODULE MCTransactionSession ------------------------
(* Values of the constants of TransactionSession for TLC.                  *)
EXTENDS TransactionSession

CONSTANTS r1, a, b

MCRequests == {r1}
MCAdapters == {a, b}
MCConfigs == Config

\* The second adapter only receives sessions that are not its own.
Foreign == [orm |-> "typeorm", runner |-> FALSE, operation |-> "none",
            row |-> "none"]

MCInit == Init /\ request[r1].adapter = a /\ config[b] = Foreign

MCSpec == MCInit /\ [][Next]_vars
=============================================================================
