----------------------------- MODULE RevisionHistory -----------------------------
(***************************************************************************)
(* What the revision policy promises of a key: its values form a history   *)
(* that only grows at the end, in which no value occurs twice.             *)
(***************************************************************************)
EXTENDS Sequences

CONSTANTS Keys, Values

VARIABLE history   \* history[k]: the values of revisions 1, 2, ... of k

Init == history = [k \in Keys |-> <<>>]

Revise(k, v) ==
    /\ \A i \in DOMAIN history[k] : history[k][i] # v
    /\ history' = [history EXCEPT ![k] = Append(@, v)]

Next == \E k \in Keys, v \in Values : Revise(k, v)

Spec == Init /\ [][Next]_history
=============================================================================
