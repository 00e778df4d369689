--------------------------- MODULE MCOfficialRevisions ---------------------------
(***************************************************************************)
(* A small instance of OfficialRevisions: two keys; the records of the     *)
(* first take three values, with source dates missing, in the past, within *)
(* the tolerance and beyond it.                                            *)
(***************************************************************************)
EXTENDS OfficialRevisions

Observed(k, v, seen, updated) ==
    [key |-> k, value |-> v, firstSeen |-> seen, updated |-> updated]

MCRecords == {
    Observed(1, 10, 1, 0),
    Observed(1, 10, 4, 4),    \* the first value again
    Observed(1, 11, 3, 1),    \* dated in the past
    Observed(1, 12, 2, 3),    \* dated within the tolerance
    Observed(1, 9, 2, 9),     \* dated beyond it
    Observed(2, 20, 1, 1),
    Observed(2, 21, 1, 1)}    \* another value at the same time
=============================================================================
