----------------------------- MODULE MCSourceFetch -----------------------------
(***************************************************************************)
(* Small instances of SourceFetch: two processes and two network sources   *)
(* without time, and one process with time and a third, imported, source.  *)
(***************************************************************************)
EXTENDS SourceFetch

CONSTANT Interval

MCMinInterval == [s \in Sources |-> Interval]
=============================================================================
