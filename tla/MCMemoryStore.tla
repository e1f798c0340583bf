---------------------------- MODULE MCMemoryStore ----------------------------
(***************************************************************************)
(* Small instances of MemoryStore: what clients may type, and two queries. *)
(***************************************************************************)
EXTENDS MemoryStore, TLC

CONSTANTS c1, c2, agentA, agentB

Typed(s, p) == [scope |-> s, padded |-> p]

\* A store in the default scope by a blank label, and one by a padded label.
MCStoreLabel == {Typed(Blank, TRUE), Typed(agentA, TRUE)}

\* A filter by a scope, by a label that is nothing once trimmed, or by both.
MCFilterLabel == {Typed(agentA, FALSE), Typed(Blank, TRUE)}

CleanLabel == {Typed(agentA, FALSE), Typed(agentB, FALSE)}

PaddedLabel == {Typed(agentA, TRUE)}

\* No limit, and a page of one.
MCLimit == {-1, 1}

\* A browse, and a search that only one content matches.
MCQuery == {{c1, c2}, {c1}}

OneQuery == {{c1}}

OneLabel == {Typed(agentA, FALSE)}

=============================================================================
