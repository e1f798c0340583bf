---------------------------- MODULE MCPersonStore ----------------------------
(***************************************************************************)
(* Small instances of PersonStore.  The random values are model values;    *)
(* they, and the tasks, are interchangeable.                               *)
(***************************************************************************)
EXTENDS PersonStore, TLC

Symmetry ==
  Permutations(Task) \cup Permutations(Person) \cup Permutations(ContentKey)
    \cup Permutations(AttrId)

=============================================================================
