----------------------------- MODULE MemoryStore -----------------------------
(***************************************************************************)
(* The memory layer of the encrypted server: the five MCP tools of         *)
(* rust/src/main.rs over the table memories of rust/src/store.rs.  The MCP *)
(* runtime runs each request as a task of its own on the one Store, so     *)
(* the tasks share one SQLite connection.  A step is one SQL statement     *)
(* with the code up to the next await, or one row of a read: SQLite does   *)
(* not shield a cursor from the other statements of its own connection.    *)
(* The process may stop between two steps.                                 *)
(***************************************************************************)
EXTENDS Recency

CONSTANTS
  Task,         \* requests that may be in progress at once
  Storing,      \* those of them that may be calls of memory_store
  Reading,      \* and of memory_search or memory_list
  Content,      \* texts of memories
  Scope,        \* scope names, trimmed and not empty
  DefaultScope,
  Blank,        \* what is left of a scope label of blanks when it is trimmed
  StoreLabel, FilterLabel, PurgeLabel,  \* the labels clients pass to each tool
  Query,        \* the sets of contents that all terms of a query may match
  Limit,        \* result limits
  Ttl,          \* values of ttl_seconds, an absent one being 0
  Millis,       \* clock ticks in a second; 1000 in the code
  MaxInt,       \* largest integer of the width of an i64
  OverflowChecks,  \* is this a build that panics on integer overflow?
  MaxTime,      \* bound on the clock
  MaxId,        \* bound on the memories ever stored
  Never, NoRow, NoCursor

\* A label as a client types it: the scope it names once trimmed, and whether it has
\* blanks around it.
Label == [scope: Scope \cup {Blank}, padded: BOOLEAN]

ASSUME TaskAssumption == Storing \subseteq Task /\ Reading \subseteq Task
ASSUME ScopeAssumption == DefaultScope \in Scope /\ Blank \notin Scope
ASSUME LabelAssumption ==
  StoreLabel \subseteq Label /\ FilterLabel \subseteq Label /\ PurgeLabel \subseteq Label
ASSUME NumberAssumption ==
  /\ Millis \in Nat \ {0} /\ MaxInt \in Nat /\ MaxTime \in Nat /\ MaxId \in Nat
  /\ Ttl \subseteq Int /\ Limit \subseteq Int
  /\ MaxTime <= MaxInt
  /\ Never \notin Int /\ NoRow \notin Int
ASSUME OverflowChecksAssumption == OverflowChecks \in BOOLEAN

VARIABLES
  memory,     \* table memories: the set of rows
  sequence,   \* sqlite_sequence: the largest id AUTOINCREMENT has given out
  lastRowid,  \* the connection's last_insert_rowid, or 0
  call,       \* per task: the memory a store has inserted and not reported, or NoRow
  cursor,     \* per task: its open cursor over memories, or NoCursor
  now,        \* the wall clock
  up,         \* is the process running, with the store open?
  told,       \* history: the memories store calls have reported, with their ids
  reply       \* history: the answer to each task's last read or purge, while it has one

vars == <<memory, sequence, lastRowid, call, cursor, now, up, told, reply>>

-----------------------------------------------------------------------------

Row == [id: 1..MaxId, content: Content, scope: Scope, created: 0..MaxTime,
        expires: Int \cup {Never}]

\* What a client is told of a read or a purge: the scopes it named, the rows it got.
Reply == [op: {"none", "read", "purge"}, asked: SUBSET (Scope \cup {Blank}),
          rows: SUBSET Row]

NoReply == [op |-> "none", asked |-> {}, rows |-> {}]

\* What a read asks for, the instant it was bound with and the rows it has got.  History:
\* the rows a client could see at some time since it was opened, and all the time.
Cursor == [asked: SUBSET (Scope \cup {Blank}), query: Query, limit: Limit,
           since: 0..MaxTime, got: SUBSET Row, ever: SUBSET Row, always: SUBSET Row]

\* What its client may think of a read: the cursor without its progress.
View == [asked: SUBSET (Scope \cup {Blank}), query: Query, limit: Limit,
         ever: SUBSET Row, always: SUBSET Row]

ASSUME NoCursorAssumption == NoCursor \notin Cursor /\ NoCursor \notin View

AliveAt(m, time) == m.expires = Never \/ m.expires > time

Unexpired(m) == AliveAt(m, now)

\* The open cursors once m has been inserted, and once only the rows of S are left.
Joined(m) == [t \in Task |-> IF cursor[t] = NoCursor THEN NoCursor
                             ELSE [cursor[t] EXCEPT !.ever = @ \cup {m}]]

Left(S) == [t \in Task |-> IF cursor[t] = NoCursor THEN NoCursor
                           ELSE [cursor[t] EXCEPT !.always = @ \cap S]]

\* Signed arithmetic in the width of an i64.
Fits(x) == -MaxInt - 1 <= x /\ x <= MaxInt
Wrap(x) == IF Fits(x) THEN x
           ELSE ((x + MaxInt + 1) % (2 * (MaxInt + 1))) - (MaxInt + 1)

\* Mutant of NormalizeScope: a label of blanks does not fall back to the default.
TrimScope(l) == l.scope

\* normalize_scope
NormalizeScope(l) == IF l.scope = Blank THEN DefaultScope ELSE l.scope

\* now + s * 1000, for a positive time to live
ExpiresAt(ttl) == IF ttl > 0 THEN Wrap(now + Wrap(ttl * Millis)) ELSE Never

Overflows(ttl) == ttl > 0 /\ (~Fits(ttl * Millis) \/ ~Fits(now + ttl * Millis))

Ready(t) == up /\ call[t] = NoRow /\ cursor[t] = NoCursor

\* Mutant of NextRowid: the id column without AUTOINCREMENT.
NextRowidReused ==
  IF memory = {} THEN 1
  ELSE 1 + (CHOOSE i \in 1..MaxId : \E m \in memory : /\ m.id = i
                                                     /\ \A n \in memory : n.id <= i)

\* AUTOINCREMENT never gives an id out twice.
NextRowid == sequence + 1

\* store_memory up to its INSERT.  A build with overflow checks panics before it.
StoreMemory(t, c, l, ttl) ==
  LET m == [id |-> NextRowid, content |-> c, scope |-> NormalizeScope(l),
            created |-> now, expires |-> ExpiresAt(ttl)] IN
  /\ Ready(t)
  /\ sequence < MaxId
  /\ ~(OverflowChecks /\ Overflows(ttl))
  /\ memory' = memory \cup {m}
  /\ sequence' = NextRowid
  /\ lastRowid' = NextRowid
  /\ call' = [call EXCEPT ![t] = m]
  /\ cursor' = Joined(m)
  /\ UNCHANGED <<now, up, told, reply>>

\* The rest of store_memory: what it reports is its own input under the id the
\* connection inserted last.
ReportMemory(t) ==
  /\ call[t] # NoRow
  /\ told' = told \cup {[call[t] EXCEPT !.id = lastRowid]}
  /\ call' = [call EXCEPT ![t] = NoRow]
  /\ UNCHANGED <<memory, sequence, lastRowid, cursor, now, up, reply>>

\* The labels of a filter that stay once it is trimmed; none of them means all scopes.
KeptScopes(asked) == asked \ {Blank}

\* Mutant of Selects: the read does not look at expires_at.
SelectsStale(m, c) ==
  m.content \in c.query /\ (KeptScopes(c.asked) = {} \/ m.scope \in KeptScopes(c.asked))

Selects(m, c) ==
  /\ AliveAt(m, c.since)
  /\ m.content \in c.query
  /\ KeptScopes(c.asked) = {} \/ m.scope \in KeptScopes(c.asked)

\* list and search up to their query
OpenCursor(t, labels, q, n) ==
  LET alive == {m \in memory : Unexpired(m)} IN
  /\ Ready(t)
  /\ cursor' = [cursor EXCEPT ![t] =
       [asked |-> {l.scope : l \in labels}, query |-> q, limit |-> n, since |-> now,
        got |-> {}, ever |-> alive, always |-> alive]]
  /\ reply' = [reply EXCEPT ![t] = NoReply]
  /\ UNCHANGED <<memory, sequence, lastRowid, call, now, up, told>>

\* The rows the cursor c has still to visit, in the table as it is now; to SQLite a
\* negative LIMIT is none.
Ahead(c) ==
  IF c.limit >= 0 /\ Cardinality(c.got) >= c.limit THEN {}
  ELSE {m \in memory : Selects(m, c) /\ \A g \in c.got : Newer(g, m)}

\* rows.next, when there is a row
FetchRow(t) ==
  /\ cursor[t] # NoCursor
  /\ \E m \in Ahead(cursor[t]) :
       /\ \A other \in Ahead(cursor[t]) : other = m \/ Newer(m, other)
       /\ cursor' = [cursor EXCEPT ![t].got = @ \cup {m}]
  /\ UNCHANGED <<memory, sequence, lastRowid, call, now, up, told, reply>>

\* rows.next, when there is none: the read is answered.
CloseCursor(t) ==
  /\ cursor[t] # NoCursor
  /\ Ahead(cursor[t]) = {}
  /\ cursor' = [cursor EXCEPT ![t] = NoCursor]
  /\ reply' = [reply EXCEPT ![t] =
       [op |-> "read", asked |-> cursor[t].asked, rows |-> cursor[t].got]]
  /\ UNCHANGED <<memory, sequence, lastRowid, call, now, up, told>>

\* Any step of the read may fail, and the rows got so far are dropped.
ReadFails(t) ==
  /\ cursor[t] # NoCursor
  /\ cursor' = [cursor EXCEPT ![t] = NoCursor]
  /\ UNCHANGED <<memory, sequence, lastRowid, call, now, up, told, reply>>

Forget(t, id) ==
  /\ Ready(t)
  /\ memory' = {m \in memory : m.id # id}
  /\ cursor' = Left(memory')
  /\ UNCHANGED <<sequence, lastRowid, call, now, up, told, reply>>

\* The label goes into the statement as it was typed, so one with blanks around it is
\* the scope of no row.
NamedBy(l) == {m \in memory : m.scope = l.scope /\ ~l.padded}

PurgeScope(t, l) ==
  /\ Ready(t)
  /\ memory' = memory \ NamedBy(l)
  /\ cursor' = Left(memory')
  /\ reply' = [reply EXCEPT ![t] = [op |-> "purge", asked |-> {l.scope}, rows |-> {}]]
  /\ UNCHANGED <<sequence, lastRowid, call, now, up, told>>

PurgeExpired ==
  /\ up
  /\ memory' = {m \in memory : Unexpired(m)}
  /\ cursor' = Left(memory')
  /\ UNCHANGED <<sequence, lastRowid, call, now, up, told, reply>>

Crash ==
  /\ up
  /\ up' = FALSE
  /\ call' = [t \in Task |-> NoRow]
  /\ cursor' = [t \in Task |-> NoCursor]
  /\ UNCHANGED <<memory, sequence, lastRowid, now, told, reply>>

\* Store::open: a new connection; init ends in a sweep of what has expired.
Open ==
  /\ ~up
  /\ up' = TRUE
  /\ lastRowid' = 0
  /\ memory' = {m \in memory : Unexpired(m)}
  /\ UNCHANGED <<sequence, call, cursor, now, told, reply>>

Tick ==
  /\ now < MaxTime
  /\ now' = now + 1
  /\ UNCHANGED <<memory, sequence, lastRowid, call, cursor, up, told, reply>>

Init ==
  /\ memory = {}
  /\ sequence = 0
  /\ lastRowid = 0
  /\ call = [t \in Task |-> NoRow]
  /\ cursor = [t \in Task |-> NoCursor]
  /\ now = 0
  /\ up = FALSE
  /\ told = {}
  /\ reply = [t \in Task |-> NoReply]

Request(t) ==
  \/ /\ t \in Storing
     /\ \E c \in Content, l \in StoreLabel, ttl \in Ttl : StoreMemory(t, c, l, ttl)
  \/ ReportMemory(t)
  \/ /\ t \in Reading
     /\ \E labels \in SUBSET FilterLabel, q \in Query, n \in Limit :
          OpenCursor(t, labels, q, n)
  \/ FetchRow(t)
  \/ CloseCursor(t)
  \/ ReadFails(t)
  \/ \E id \in 1..sequence : Forget(t, id)
  \/ \E l \in PurgeLabel : PurgeScope(t, l)

Next ==
  \/ \E t \in Task : Request(t)
  \/ PurgeExpired
  \/ Crash
  \/ Open
  \/ Tick

Spec == Init /\ [][Next]_vars

-----------------------------------------------------------------------------
(* Properties *)

\* The table, the calls, the cursors and the answers hold rows of the right shape.
TypeOK ==
  /\ memory \subseteq Row
  /\ sequence \in 0..MaxId
  /\ lastRowid \in 0..MaxId
  /\ call \in [Task -> Row \cup {NoRow}]
  /\ cursor \in [Task -> Cursor \cup {NoCursor}]
  /\ now \in 0..MaxTime
  /\ up \in BOOLEAN
  /\ told \subseteq [id: 0..MaxId, content: Content, scope: Scope,
                     created: 0..MaxTime, expires: Int \cup {Never}]
  /\ reply \in [Task -> Reply]

\* An id that a store call reported never names another memory, not after the memory
\* was forgotten, purged or swept, and not after a restart: memory_forget with it
\* deletes what its owner stored, or nothing.
ToldIdsNameTheirMemory ==
  \A r \in told, m \in memory : m.id = r.id => m = r

\* A purge that was answered has left no memory in the scope it was asked to empty
\* (main.rs:158, EVERY memory in a scope).
PurgeEmptiesScope ==
  [][\A t \in Task :
       reply'[t].op = "purge" /\ reply'[t] # reply[t]
         => \A m \in memory' : m.scope \notin reply'[t].asked]_vars

\* A cursor, as its client may think of it.
ViewOf(c) ==
  IF c = NoCursor THEN NoCursor
  ELSE [asked |-> c.asked, query |-> c.query, limit |-> c.limit, ever |-> c.ever,
        always |-> {m \in c.always : Unexpired(m)}]

\* Clients see the memories ScopedMemory promises: rows exist until their deadline,
\* sweeps and restarts do not show, and a read that steps its cursor between the
\* statements of other requests returns nothing that never was and misses nothing that
\* was there throughout.
Promised == INSTANCE ScopedMemory WITH
  Client <- Task,
  Horizon <- MaxInt,
  Newer <- Newer,
  Count <- Cardinality,
  Idle <- NoCursor,
  memories <- {m \in memory : Unexpired(m)},
  issued <- sequence,
  clock <- now,
  reading <- [t \in Task |-> ViewOf(cursor[t])]

ImplementsScopedMemory == Promised!Spec

=============================================================================
