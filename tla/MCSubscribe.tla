---------------------------- MODULE MCSubscribe ----------------------------
(***************************************************************************)
(* Small instances of Subscribe for TLC.                                   *)
(***************************************************************************)
EXTENDS Subscribe

Kind(trace, other, readable) == [trace |-> trace, other |-> other, readable |-> readable]

\* A text on the topic, a text on another topic, a trace, a binary payload.
MCMessages ==
  {Kind(FALSE, FALSE, TRUE), Kind(FALSE, TRUE, TRUE), Kind(TRUE, FALSE, TRUE),
   Kind(FALSE, FALSE, FALSE)}
=============================================================================
