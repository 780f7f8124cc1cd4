------------------------ MODULE ConditionalStatement ------------------------
(***************************************************************************)
(* What an adapter's create, update, delete and upsert promise about one   *)
(* row: each happens at one moment, against the row of that moment.        *)
(***************************************************************************)
EXTENDS Naturals, RowMutation

CONSTANT Clients

VARIABLES
    calls,      \* calls[c]: what client c asks for, if it asks
    row,        \* the committed row
    outcome,    \* outcome[c]: what the call of c came to
    others      \* how often somebody else wrote the row

vars == <<calls, row, outcome, others>>

Asking == DOMAIN calls

\* A call misses, or conflicts, in a state in which it does.  It may fail in
\* any (serialization, a hook, the connection), also after it has missed.
MayBeRefused(c) ==
    \/ outcome'[c] = outcome[c]
    \/ /\ outcome[c] = Pending /\ ~Writes(calls[c], row')
       /\ outcome'[c] = Outcome(calls[c], row')
    \/ outcome[c] \in {Pending, Missing} /\ outcome'[c] = Failed

Init ==
    /\ Asking \subseteq Clients
    /\ row \in Rows \cup {Gone}
    /\ outcome = [c \in Asking |-> Pending]
    /\ others = 0

Perform(c) ==
    /\ outcome[c] = Pending /\ Writes(calls[c], row)
    /\ row' = After(calls[c], row)
    /\ outcome'[c] = Outcome(calls[c], row)
    /\ \A d \in Asking \ {c} : MayBeRefused(d)
    /\ UNCHANGED <<calls, others>>

Refuse ==
    /\ UNCHANGED <<calls, row, others>>
    /\ \A c \in Asking : MayBeRefused(c)

OtherWrite ==
    /\ others' = others + 1
    /\ row' \in Rows \cup {Gone}
    /\ \A c \in Asking : MayBeRefused(c)
    /\ UNCHANGED calls

Next == (\E c \in Asking : Perform(c)) \/ Refuse \/ OtherWrite

Spec == Init /\ [][Next]_vars
=============================================================================
