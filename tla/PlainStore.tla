------------------------------ MODULE PlainStore ------------------------------
(***************************************************************************)
(* The TypeScript server: src/db.ts over one plain SQLite file, and the    *)
(* five tools of src/index.ts.  Each client has a server process of its    *)
(* own and all the processes share the file.  Calls are synchronous, so a  *)
(* process finishes one before the next, but other processes may write     *)
(* between two statements of a call.                                       *)
(***************************************************************************)
EXTENDS Recency

CONSTANTS
  Process,   \* server processes on one file, each with its client
  Content,   \* contents and tags of memories
  Scope,     \* scope names, trimmed and not empty
  DefaultScope,
  Blank,     \* what is left of a label of blanks when it is trimmed
  NoScope,   \* the scope of a row of a file that has no scope column
  StoreLabel, PurgeLabel,  \* the labels clients pass, blanks around them aside
  Filter,    \* the sets of labels clients restrict a read to
  Query,     \* the sets of contents that terms and tags may match
  Limit,     \* page sizes
  Time,      \* instants a store may stamp; see Store
  MaxId      \* bound on the memories ever stored

ASSUME ScopeAssumption == DefaultScope \in Scope /\ {Blank, NoScope} \cap Scope = {}
ASSUME LabelAssumption ==
  /\ StoreLabel \cup PurgeLabel \subseteq Scope \cup {Blank}
  /\ Filter \subseteq SUBSET (Scope \cup {Blank})
ASSUME NumberAssumption ==
  MaxId \in Nat \ {0} /\ Time \subseteq Int /\ Limit \subseteq Nat \ {0}

VARIABLES
  schema,    \* the file: "none", "unscoped" (written by version 0.1) or "scoped"
  memory,    \* table memories: the set of rows
  sequence,  \* sqlite_sequence: the largest id given out
  at,        \* where each process is
  page,      \* per process: the page its client asked for last, or will next
  sweep,     \* history: what each client is still to get while it pages through a query
  told       \* history: the memories store calls have reported, with their ids

vars == <<schema, memory, sequence, at, page, sweep, told>>

-----------------------------------------------------------------------------

Row == [id: 1..MaxId, content: Content, scope: Scope \cup {NoScope}, created: Time]

\* scopes is empty for all scopes; total is the count of the first statement.
Page == [query: Query \cup {{}}, scopes: SUBSET Scope, limit: Limit \cup {0},
         offset: Nat, total: Nat]

NoPage == [query |-> {}, scopes |-> {}, limit |-> 0, offset |-> 0, total |-> 0]

\* owed: the matches there were when the first page was asked for that still exist and
\* that no page has held yet; got: those its pages held, until the last page or until a
\* match newer than one of them is stored; lost: how many matches before its next offset
\* have been deleted; late: how many have been stored since the last page was counted and
\* before it was selected; more: did the last answer say has_more?
Sweep == [owed: SUBSET Row, got: SUBSET Row, lost: Nat, late: Nat, more: BOOLEAN]

NoSweep == [owed |-> {}, got |-> {}, lost |-> 0, late |-> 0, more |-> FALSE]

\* Mutant of NormalizeScope: a label of blanks does not fall back to the default.
TrimScope(l) == l

NormalizeScope(l) == IF l = Blank THEN DefaultScope ELSE l

NormalizeScopes(labels) == labels \ {Blank}

Matches(m, pg) ==
  m.content \in pg.query /\ (pg.scopes = {} \/ m.scope \in pg.scopes)

Matching(pg) == {m \in memory : Matches(m, pg)}

\* ORDER BY created_at DESC, id DESC: how many rows of M come before m.
Rank(M, m) == Cardinality({n \in M : Newer(n, m)})

\* Mutant of Window: the offset is one too small.
WindowOverlapping(pg) ==
  {m \in Matching(pg) :
     Rank(Matching(pg), m) \in pg.offset - 1 .. pg.offset + pg.limit - 1}

\* LIMIT pg.limit OFFSET pg.offset
Window(pg) ==
  {m \in Matching(pg) :
     Rank(Matching(pg), m) \in pg.offset .. pg.offset + pg.limit - 1}

\* A match stored between the two statements of a page makes its count too small.  One
\* that comes before what the client got moves that into its next pages, and one that
\* goes away before its next offset moves a later one out of them.
AfterStore(m) ==
  [p \in Process |-> [sweep[p] EXCEPT
     !.late = IF at[p] = "selectPage" /\ Matches(m, page[p]) THEN @ + 1 ELSE @,
     !.got = IF Matches(m, page[p]) /\ \E g \in @ : Newer(m, g) THEN {} ELSE @]]

AfterDelete(D) ==
  [p \in Process |-> [sweep[p] EXCEPT
     !.owed = @ \ D,
     !.got = @ \ D,
     !.lost = @ + Cardinality({m \in D \cap Matching(page[p]) :
                                Rank(Matching(page[p]), m) < page[p].offset})]]

-----------------------------------------------------------------------------
(* The constructor *)

\* Up to CREATE TABLE IF NOT EXISTS.
Connect(p) ==
  /\ at[p] = "down"
  /\ schema' = IF schema = "none" THEN "scoped" ELSE schema
  /\ at' = [at EXCEPT ![p] = "migrate"]
  /\ UNCHANGED <<memory, sequence, page, sweep, told>>

\* Mutant of HasScope: a file that has its table is taken to be up to date.
HasScopeAlways == TRUE

HasScope == schema = "scoped"

\* migrate asks for the columns; the index on scope can follow if there is one.
ReadColumns(p) ==
  /\ at[p] = "migrate"
  /\ at' = [at EXCEPT ![p] = IF HasScope THEN "serving" ELSE "addColumn"]
  /\ UNCHANGED <<schema, memory, sequence, page, sweep, told>>

\* ALTER TABLE throws, and the process exits, if the column has appeared since.
AddScopeColumn(p) ==
  /\ at[p] = "addColumn"
  /\ \/ /\ schema = "unscoped"
        /\ schema' = "scoped"
        /\ memory' = {[m EXCEPT !.scope = DefaultScope] : m \in memory}
        /\ at' = [at EXCEPT ![p] = "serving"]
     \/ /\ schema = "scoped"
        /\ at' = [at EXCEPT ![p] = "down"]
        /\ UNCHANGED <<schema, memory>>
  /\ UNCHANGED <<sequence, page, sweep, told>>

-----------------------------------------------------------------------------
(* The tools *)

\* Mutant of NextRowid: the id column without AUTOINCREMENT.
NextRowidReused ==
  IF memory = {} THEN 1
  ELSE 1 + (CHOOSE i \in 1..MaxId : \E m \in memory : /\ m.id = i
                                                     /\ \A n \in memory : n.id <= i)

NextRowid == sequence + 1

\* The stamp is read before the INSERT, which other processes may delay, and the wall
\* clock may step back: stamps need not ascend with the ids.
Store(p, c, l, w) ==
  LET m == [id |-> NextRowid, content |-> c, scope |-> NormalizeScope(l), created |-> w] IN
  /\ at[p] = "serving"
  /\ sequence < MaxId
  /\ memory' = memory \cup {m}
  /\ sequence' = NextRowid
  /\ told' = told \cup {m}
  /\ sweep' = AfterStore(m)
  /\ UNCHANGED <<schema, at, page>>

\* The first statement of query: SELECT COUNT(*).
CountPage(p, pg) ==
  /\ page' = [page EXCEPT ![p] = [pg EXCEPT !.total = Cardinality(Matching(pg))]]
  /\ at' = [at EXCEPT ![p] = "selectPage"]
  /\ UNCHANGED <<schema, memory, sequence, told>>

\* memory_search or memory_list from the start.
FirstPage(p, q, labels, n) ==
  LET pg == [query |-> q, scopes |-> NormalizeScopes(labels), limit |-> n,
             offset |-> 0, total |-> 0] IN
  /\ at[p] = "serving"
  /\ CountPage(p, pg)
  /\ sweep' = [sweep EXCEPT ![p] = [NoSweep EXCEPT !.owed = Matching(pg)]]

\* The client follows next_offset.
NextPage(p) ==
  /\ at[p] = "serving"
  /\ sweep[p].more
  /\ CountPage(p, page[p])
  /\ sweep' = [sweep EXCEPT ![p].late = 0]

\* Mutant of HasMore: off by one.
HasMoreSkipping(next, total) == next + 1 < total

HasMore(next, total) == next < total

\* The second statement, and the answer: has_more, and next_offset only if there is more.
SelectPage(p) ==
  LET rows == Window(page[p])
      next == page[p].offset + Cardinality(rows)
      more == HasMore(next, page[p].total) IN
  /\ at[p] = "selectPage"
  /\ sweep' = [sweep EXCEPT ![p] =
       [owed |-> @.owed \ rows, got |-> IF more THEN @.got \cup rows ELSE {},
        lost |-> @.lost, late |-> @.late, more |-> more]]
  /\ page' = [page EXCEPT ![p] =
       IF more THEN [@ EXCEPT !.offset = next, !.total = 0] ELSE NoPage]
  /\ at' = [at EXCEPT ![p] = "serving"]
  /\ UNCHANGED <<schema, memory, sequence, told>>

Delete(D) ==
  /\ memory' = memory \ D
  /\ sweep' = AfterDelete(D)
  /\ UNCHANGED <<schema, sequence, at, page, told>>

Forget(p, id) ==
  /\ at[p] = "serving"
  /\ Delete({m \in memory : m.id = id})

PurgeScope(p, l) ==
  /\ at[p] = "serving"
  /\ Delete({m \in memory : m.scope = NormalizeScope(l)})

-----------------------------------------------------------------------------

\* A statement throws, on a lock another process holds or an I/O error, and the client
\* gets an error.  Only between the statements of a page is there something to lose.
PageFails(p) ==
  /\ at[p] = "selectPage"
  /\ at' = [at EXCEPT ![p] = "serving"]
  /\ sweep' = [sweep EXCEPT ![p] = NoSweep]
  /\ page' = [page EXCEPT ![p] = NoPage]
  /\ UNCHANGED <<schema, memory, sequence, told>>

\* The process exits: a client that hangs up, a kill, a start that throws.
Stop(p) ==
  /\ at[p] # "down"
  /\ at' = [at EXCEPT ![p] = "down"]
  /\ sweep' = [sweep EXCEPT ![p] = NoSweep]
  /\ page' = [page EXCEPT ![p] = NoPage]
  /\ UNCHANGED <<schema, memory, sequence, told>>

\* The rows of a file that version 0.1 wrote.
Unscoped == [id: 1..MaxId, content: Content, scope: {NoScope}, created: Time]

Init ==
  /\ \/ schema = "none" /\ memory = {} /\ sequence = 0
     \/ /\ schema = "unscoped"
        /\ sequence = 1
        /\ \E m \in Unscoped : m.id = 1 /\ memory = {m}
  /\ at = [p \in Process |-> "down"]
  /\ page = [p \in Process |-> NoPage]
  /\ sweep = [p \in Process |-> NoSweep]
  /\ told = {}

Start(p) == Connect(p) \/ ReadColumns(p) \/ AddScopeColumn(p)

Request(p) ==
  \/ \E c \in Content, l \in StoreLabel, w \in Time : Store(p, c, l, w)
  \/ \E q \in Query, labels \in Filter, n \in Limit : FirstPage(p, q, labels, n)
  \/ NextPage(p)
  \/ SelectPage(p)
  \/ \E id \in 1..MaxId : Forget(p, id)
  \/ \E l \in PurgeLabel : PurgeScope(p, l)

Next == \E p \in Process : Start(p) \/ Request(p) \/ PageFails(p) \/ Stop(p)

Spec == Init /\ [][Next]_vars

-----------------------------------------------------------------------------
(* Properties *)

\* The file, the pages and the answers have the right shape.
TypeOK ==
  /\ schema \in {"none", "unscoped", "scoped"}
  /\ memory \subseteq Row
  /\ sequence \in 0..MaxId
  /\ at \in [Process -> {"down", "migrate", "addColumn", "serving", "selectPage"}]
  /\ page \in [Process -> Page]
  /\ sweep \in [Process -> Sweep]
  /\ told \subseteq Row

\* No process serves a file that has no scope column, whichever processes start on an
\* old file at once and wherever they stop; and in a file that has one every memory,
\* those of version 0.1 included, lies in a scope that can be listed and purged.
ServingIsMigrated ==
  /\ \A p \in Process : at[p] \in {"serving", "selectPage"} => schema = "scoped"
  /\ schema = "scoped" => \A m \in memory : m.scope \in Scope

\* An id that memory_store reported never names another memory, whatever the other
\* processes store, forget and purge.
ToldIdsNameTheirMemory ==
  \A r \in told, m \in memory : m.id = r.id => m = r

\* A client that follows next_offset until has_more is false misses at most one memory
\* that matched when it began, and still exists, for each match that was deleted before
\* its next offset and for each that was stored between the count and the rows of its
\* last page; it misses none for what others store at any other time.
SweepMissesFew ==
  \A p \in Process :
    at[p] = "serving" /\ ~sweep[p].more
      => Cardinality(sweep[p].owed) <= sweep[p].lost + sweep[p].late

\* Nor does it get a memory twice, whatever others store behind what it got, forget and
\* purge meanwhile.
NoMemoryTwice ==
  \A p \in Process :
    at[p] = "selectPage" => Window(page[p]) \cap sweep[p].got = {}

=============================================================================
