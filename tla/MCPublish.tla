----------------------------- MODULE MCPublish -----------------------------
(***************************************************************************)
(* Small instances of Publish for TLC.                                     *)
(***************************************************************************)
EXTENDS Publish, TLC

CONSTANTS p1, p2

MCSymmetry == Permutations({p1, p2})
=============================================================================
