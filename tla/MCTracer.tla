------------------------------ MODULE MCTracer ------------------------------
(***************************************************************************)
(* A small instance of Tracer for TLC.                                     *)
(***************************************************************************)
EXTENDS Tracer

\* No message; an unsettled one between a settled and one with a negative delay.
MCContent == {<< >>, <<-1, 0, 2>>}
=============================================================================
