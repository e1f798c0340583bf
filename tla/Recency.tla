------------------------------- MODULE Recency -------------------------------
(***************************************************************************)
(* The order in which memories are listed: ORDER BY created_at DESC,       *)
(* id DESC.                                                                *)
(***************************************************************************)
EXTENDS Integers, FiniteSets

Newer(a, b) ==
  a.created > b.created \/ (a.created = b.created /\ a.id > b.id)

=============================================================================
