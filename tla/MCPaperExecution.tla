---------------------------- MODULE MCPaperExecution ----------------------------
(***************************************************************************)
(* A small instance of PaperExecution: three assets, two of them in one    *)
(* class, and nine signals over three days.  Every cap is reached before   *)
(* the signals run out.                                                    *)
(***************************************************************************)
EXTENDS PaperExecution

CONSTANTS x, y, z, equity, fx, d1, d2, d3

MCAssets == {x, y, z}
MCClasses == {equity, fx}
MCClassOf == [a \in MCAssets |-> IF a = y THEN fx ELSE equity]
MCDays == {d1, d2, d3}

Plain == [id |-> 0, asset |-> x, day |-> d1, direction |-> "positive",
          status |-> "research", confident |-> TRUE, expired |-> FALSE,
          usable |-> TRUE, coherent |-> TRUE, bar |-> TRUE]

MCSignals == {
    Plain,
    [Plain EXCEPT !.id = 1, !.confident = FALSE],
    [Plain EXCEPT !.id = 2, !.day = d2],
    [Plain EXCEPT !.id = 3, !.day = d3, !.direction = "negative"],
    [Plain EXCEPT !.id = 4, !.asset = y, !.direction = "mixed",
                  !.status = "informational"],
    [Plain EXCEPT !.id = 5, !.asset = y, !.day = d2, !.bar = FALSE],
    [Plain EXCEPT !.id = 6, !.asset = z],
    [Plain EXCEPT !.id = 7, !.asset = y, !.day = d2, !.coherent = FALSE],
    [Plain EXCEPT !.id = 8, !.asset = z, !.usable = FALSE]}
=============================================================================
