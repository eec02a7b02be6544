------------------------------ MODULE MCUpdate ------------------------------
(***************************************************************************)
(* Small instances of Update for TLC.                                      *)
(***************************************************************************)
EXTENDS Update

Release(base, name, number) ==
  [base |-> base, suffix |-> [name |-> name, number |-> number]]

\* 0.0.1-beta2, 0.0.1-rc9, 0.0.1-rc10, 0.0.1 and 0.0.2-rc1.
MCVersions ==
  {Release(<<0, 0, 1>>, 1, 2), Release(<<0, 0, 1>>, 2, 9), Release(<<0, 0, 1>>, 2, 10),
   Release(<<0, 0, 1>>, 0, 0), Release(<<0, 0, 2>>, 2, 1)}
=============================================================================
