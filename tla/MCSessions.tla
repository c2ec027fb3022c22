----------------------------- MODULE MCSessions -----------------------------
(***************************************************************************)
(* Instances of Sessions for TLC.                                          *)
(***************************************************************************)
EXTENDS Sessions, TLC

\* Requests are told apart by what they hold alone.
RequestSymmetry == Permutations(Requests)
=============================================================================
