------------------------------- MODULE MCAuth -------------------------------
(***************************************************************************)
(* Small instances of Auth for TLC.                                        *)
(***************************************************************************)
EXTENDS Auth, TLC

CONSTANTS p1, p2

\* One token that lasts and can be refreshed, one that expires soon and cannot.
MCGrants == {[life |-> 3, refresh |-> TRUE], [life |-> 1, refresh |-> FALSE]}

\* A device code that leaves time for several requests, also after a slow_down.
MCDevices == {[interval |-> 1, life |-> 4]}

MCSymmetry == Permutations({p1, p2})
=============================================================================
