----------------------------- MODULE MCPlainStore -----------------------------
(***************************************************************************)
(* Small instances of PlainStore.                                          *)
(***************************************************************************)
EXTENDS PlainStore, TLC

CONSTANTS c1, agentA, agentB

\* A store in a scope of its own, and one in the default scope by a blank label.
MCStoreLabel == {agentA, Blank}

\* One scope, and all of them by a blank label.
MCFilter == {{agentA}, {Blank}}

MCQuery == {{c1}}

Symmetry == Permutations(Process)

=============================================================================
