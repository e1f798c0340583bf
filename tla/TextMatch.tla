------------------------------ MODULE TextMatch ------------------------------
(***************************************************************************)
(* How memories are matched by text, the same in the encrypted server      *)
(* (rust/src/store.rs) and the TypeScript one (src/src/db.ts): a query is  *)
(* split into terms, tags are normalized and kept as a JSON array, and     *)
(* both are compared by SQLite, LOWER(column) LIKE '%...%'.  SQLite folds  *)
(* the case of ASCII letters only, the programs that of every letter.      *)
(*                                                                         *)
(* Texts are sequences of characters here: what matches depends on how     *)
(* terms, quotes, wildcards and letters of both kinds stand next to each   *)
(* other.                                                                  *)
(***************************************************************************)
EXTENDS Integers, SequencesExt

CONSTANTS
  Char,         \* the characters of texts
  ToLower,      \* the lower case of each character
  Ascii,        \* the characters whose case SQLite knows
  Blank, Percent, Underscore, Quote, Backslash, Comma, Open, Close,
  Given,        \* the contents and lists of tags that clients store
  Asked,        \* the queries and lists of tags that clients search for
  Nothing

Punctuation == {Blank, Percent, Underscore, Quote, Backslash, Comma, Open, Close}

ASSUME CharAssumption ==
  /\ ToLower \in [Char -> Char]
  /\ Punctuation \subseteq Ascii /\ Ascii \subseteq Char
  /\ \A c \in Char : ToLower[ToLower[c]] = ToLower[c]
  /\ \A c \in Punctuation : ToLower[c] = c
  /\ \A c \in Char : ToLower[c] \in Punctuation => c \in Punctuation
  /\ IsInjective(<<Blank, Percent, Underscore, Quote, Backslash, Comma, Open, Close>>)

ASSUME TextAssumption ==
  /\ Nothing \notin Given \cup Asked
  /\ \A g \in Given : g.content \in Seq(Char) /\ g.tags \in Seq(Seq(Char))
  /\ \A a \in Asked : a.query \in Seq(Char) /\ a.tags \in Seq(Seq(Char))

VARIABLES
  given,   \* what the client of the one memory gave, or Nothing
  row,     \* the columns content and tags of its row
  asked,   \* what another client asked, or Nothing
  found    \* was the memory among its answers?

vars == <<given, row, asked, found>>

-----------------------------------------------------------------------------

\* to_lowercase, toLowerCase
LowerCase(t) == [i \in DOMAIN t |-> ToLower[t[i]]]

\* SQLite's LOWER
SqlLower(t) == [i \in DOMAIN t |-> IF t[i] \in Ascii THEN ToLower[t[i]] ELSE t[i]]

Trim(t) ==
  LET ink == {i \in DOMAIN t : t[i] # Blank}
  IN IF ink = {} THEN <<>> ELSE SubSeq(t, Min(ink), Max(ink))

\* How much of the text a pattern can match whose last character is c, when it can match
\* this much before c: % stands for any text, _ for any character, and a letter for itself
\* in either case if it is ASCII.
Onward(t, c, before) ==
  {j \in 0..Len(t) :
     \/ c = Percent /\ \E k \in before : k <= j
     \/ /\ c # Percent /\ j - 1 \in before
        /\ c = Underscore \/ SqlLower(<<c>>) = SqlLower(<<t[j]>>)}

\* SQLite's LIKE: reach[i] holds how much of the text the first i characters can match.
Like(t, p) ==
  LET reach[i \in 0..Len(p)] ==
        IF i = 0 THEN {0} ELSE Onward(t, p[i], reach[i - 1])
  IN Len(t) \in reach[Len(p)]

\* LOWER(column) LIKE '%' || part || '%'
ColumnHas(column, part) ==
  Like(SqlLower(column), <<Percent>> \o LowerCase(part) \o <<Percent>>)

\* Mutant of Terms: a query is one term.
TermsWhole(q) == {Trim(q)} \ {<<>>}

\* split_whitespace, tokenize: the longest parts of a query without a blank.
Terms(q) ==
  {SubSeq(q, ends[1], ends[2]) : ends \in
     {e \in (1..Len(q)) \X (1..Len(q)) :
        /\ e[1] <= e[2]
        /\ \A i \in e[1]..e[2] : q[i] # Blank
        /\ \A i \in {e[1] - 1, e[2] + 1} : i \in DOMAIN q => q[i] = Blank}}

\* The i-th of the tags is not blank, and none before it differs from it by case only.
FirstOfItsKind(tags, i) ==
  /\ Trim(tags[i]) # <<>>
  /\ \A j \in 1..(i - 1) : LowerCase(Trim(tags[j])) # LowerCase(Trim(tags[i]))

\* normalize_tags
NormalizeTags(tags) ==
  FlattenSeq([i \in DOMAIN tags |->
                IF FirstOfItsKind(tags, i) THEN <<Trim(tags[i])>> ELSE <<>>])

\* JSON.stringify of a text: quotes and backslashes are escaped.
Json(t) ==
  <<Quote>> \o FlattenSeq([i \in DOMAIN t |->
                IF t[i] \in {Quote, Backslash} THEN <<Backslash, t[i]>> ELSE <<t[i]>>])
    \o <<Quote>>

JsonArray(tags) ==
  <<Open>> \o FlattenSeq([i \in DOMAIN tags |->
                IF i = 1 THEN Json(tags[i]) ELSE <<Comma>> \o Json(tags[i])])
    \o <<Close>>

\* Mutant of Matches: a tag is looked for as it is, and not as a quoted token.
MatchesUnquoted(r, a) ==
  /\ \A t \in Terms(a.query) : ColumnHas(r.content, t)
  /\ \A i \in DOMAIN NormalizeTags(a.tags) :
       ColumnHas(r.tags, NormalizeTags(a.tags)[i])

\* The WHERE clause: every term in the content, every tag's token among the tags.
Matches(r, a) ==
  /\ \A t \in Terms(a.query) : ColumnHas(r.content, t)
  /\ \A i \in DOMAIN NormalizeTags(a.tags) :
       ColumnHas(r.tags, Json(NormalizeTags(a.tags)[i]))

Store(g) ==
  /\ given = Nothing
  /\ given' = g
  /\ row' = [content |-> g.content, tags |-> JsonArray(NormalizeTags(g.tags))]
  /\ UNCHANGED <<asked, found>>

Search(a) ==
  /\ given # Nothing /\ asked = Nothing
  /\ asked' = a
  /\ found' = Matches(row, a)
  /\ UNCHANGED <<given, row>>

Forget ==
  /\ asked # Nothing
  /\ given' = Nothing /\ row' = Nothing /\ asked' = Nothing /\ found' = FALSE

Init == given = Nothing /\ row = Nothing /\ asked = Nothing /\ found = FALSE

Next == (\E g \in Given : Store(g)) \/ (\E a \in Asked : Search(a)) \/ Forget

Spec == Init /\ [][Next]_vars

-----------------------------------------------------------------------------
(* Properties *)

SameText(s, t) == LowerCase(s) = LowerCase(t)

Says(content, part) ==
  \E k \in 0..(Len(content) - Len(part)) :
    SameText(SubSeq(content, k + 1, k + Len(part)), part)

\* Whatever stands between the blanks of the query is said in the content, in upper or
\* lower case, and the memory carries all the tags of the filter.
Deserved ==
  /\ \A i, j \in DOMAIN asked.query :
       i <= j /\ (\A k \in i..j : asked.query[k] # Blank)
         => Says(given.content, SubSeq(asked.query, i, j))
  /\ \A i \in DOMAIN asked.tags :
       LET tag == Trim(asked.tags[i]) IN
       tag # <<>> => \E j \in DOMAIN given.tags : SameText(Trim(given.tags[j]), tag)

Uses(texts, chars) == \E t \in texts : \E i \in DOMAIN t : t[i] \in chars

GivenTexts == {given.content} \cup Range(given.tags)

AskedTexts == {asked.query} \cup Range(asked.tags)

\* Letters whose case SQLite does not know.
ForeignCapitals == {c \in Char \ Ascii : ToLower[c] # c}

\* A search misses no memory that says every term, in any case, and carries every tag
\* (README.md:95), unless the memory has a capital letter outside ASCII: LOWER leaves it
\* as it is, and no term in lower case matches it.
FindsEveryMatch ==
  asked # Nothing /\ Deserved /\ ~Uses(GivenTexts, ForeignCapitals) => found

\* A search answers no other memory (main.rs:50, every term must appear in content;
\* db.ts:249, match the quoted token), but for wildcards among what is asked, a tag that
\* is a comma, which stands between the quotes of any two tags, and quotes within a tag
\* of the memory, where the rest of it looks like a tag of its own.
FindsOnlyMatches ==
  asked # Nothing /\ found
    /\ ~Uses(AskedTexts, {Percent, Underscore})
    /\ <<Comma>> \notin {Trim(t) : t \in Range(asked.tags)}
    /\ ~Uses(Range(given.tags), {Quote})
  => Deserved

=============================================================================
