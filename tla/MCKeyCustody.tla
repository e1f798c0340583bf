----------------------------- MODULE MCKeyCustody -----------------------------
(***************************************************************************)
(* Small instances of KeyCustody.  Random values are numbered in the order *)
(* they are drawn, so no symmetry is declared but that of processes, and   *)
(* none at all where a liveness property is checked.                       *)
(***************************************************************************)
EXTENDS KeyCustody, TLC

ProcessSymmetry == Permutations(Process)

=============================================================================
