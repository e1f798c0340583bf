----------------------------- MODULE MCTextMatch -----------------------------
(***************************************************************************)
(* All short texts over few characters.                                    *)
(***************************************************************************)
EXTENDS TextMatch

\* A letter of ASCII and one that is not, in either case, a bare letter and a comma.
MCToLower == [c \in Char |-> CASE c = "A" -> "a" [] c = "AE" -> "ae" [] OTHER -> c]

MCAscii == Char \ {"ae", "AE"}

Text(chars, n) == UNION {[1..k -> chars] : k \in 0..n}

\* Contents without tags, asked for by queries, and tags without content, by filters.
MCGiven ==
  [content: Text({"a", "A", "ae", "AE", " ", "%"}, 3), tags: {<<>>}]
    \cup [content: {<<>>},
          tags: UNION {[1..k -> Text({"a", "AE", " ", "quote", "backslash"}, 2) \cup {<<"a", "quote", ",">>}] :
                         k \in 0..2}]

MCAsked ==
  [query: Text({"a", "ae", "AE", " ", "_", "%"}, 3), tags: {<<>>}]
    \cup [query: {<<>>},
          tags: [1..1 -> Text({"A", "ae", " ", "quote", "backslash", ","}, 2)]]

=============================================================================
