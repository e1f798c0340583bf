-------------------------- MODULE MemoryStoreProofs --------------------------
(***************************************************************************)
(* Theorems about MemoryStore: it implements ScopedMemory, for any number  *)
(* of overlapping requests and in builds whose integers wrap, as long as   *)
(* the labels of purges need no trimming; and where calls of memory_store  *)
(* do not overlap, a reported id never names another memory.               *)
(***************************************************************************)
EXTENDS MemoryStore, FiniteSetTheorems, TLAPS

-----------------------------------------------------------------------------
(* Types *)

LEMMA WrapFits ==
  ASSUME NEW x \in Int
  PROVE  Wrap(x) \in (-MaxInt - 1)..MaxInt
<1>. DEFINE n == 2 * (MaxInt + 1)
<1>1. MaxInt \in Nat /\ n \in Nat /\ n > 0 /\ n = MaxInt + MaxInt + 2
  BY NumberAssumption
<1>2. CASE Fits(x)
  BY <1>1, <1>2 DEF Wrap, Fits
<1>3. CASE ~Fits(x)
  <2>. DEFINE y == x + MaxInt + 1
  <2>1. Wrap(x) = (y % n) - (MaxInt + 1)
    BY <1>3 DEF Wrap
  <2>2. y \in Int
    BY <1>1
  <2>. HIDE DEF n, y
  <2>3. y % n \in 0..(n - 1)
    BY <1>1, <2>2
  <2>. QED  BY <1>1, <2>1, <2>3
<1>. QED  BY <1>2, <1>3

LEMMA ProductFits ==
  ASSUME NEW ttl \in Int, ttl > 0
  PROVE  ttl * Millis \in Int /\ ttl * Millis > 0
BY NumberAssumption

LEMMA ExpiresAtType ==
  ASSUME now \in 0..MaxTime, NEW ttl \in Ttl
  PROVE  /\ ttl > 0 => ExpiresAt(ttl) \in (-MaxInt - 1)..MaxInt
         /\ ExpiresAt(ttl) \in Int \cup {Never}
<1>1. ttl \in Int /\ now \in Int /\ MaxInt \in Int
  BY NumberAssumption
<1>2. CASE ttl > 0
  <2>. DEFINE w == Wrap(ttl * Millis)
  <2>1. w \in Int
    <3>1. ttl * Millis \in Int
      BY <1>1, <1>2, ProductFits
    <3>. HIDE DEF w
    <3>2. w \in (-MaxInt - 1)..MaxInt
      BY <3>1, WrapFits DEF w
    <3>. QED  BY <1>1, <3>2
  <2>2. ExpiresAt(ttl) = Wrap(now + w)
    BY <1>2 DEF ExpiresAt
  <2>. HIDE DEF w
  <2>3. Wrap(now + w) \in (-MaxInt - 1)..MaxInt
    BY <1>1, <2>1, WrapFits
  <2>. QED  BY <1>1, <2>2, <2>3
<1>3. CASE ~(ttl > 0)
  BY <1>3 DEF ExpiresAt
<1>. QED  BY <1>2, <1>3

LEMMA JoinedType ==
  ASSUME TypeOK, NEW m \in Row
  PROVE  Joined(m) \in [Task -> Cursor \cup {NoCursor}]
<1>1. ASSUME NEW t \in Task, cursor[t] # NoCursor
      PROVE  [cursor[t] EXCEPT !.ever = @ \cup {m}] \in Cursor
  BY <1>1 DEF TypeOK, Cursor
<1>. QED  BY <1>1 DEF Joined

LEMMA LeftType ==
  ASSUME TypeOK, NEW S
  PROVE  Left(S) \in [Task -> Cursor \cup {NoCursor}]
<1>1. ASSUME NEW t \in Task, cursor[t] # NoCursor
      PROVE  [cursor[t] EXCEPT !.always = @ \cap S] \in Cursor
  BY <1>1 DEF TypeOK, Cursor
<1>. QED  BY <1>1 DEF Left

LEMMA TypeInit == Init => TypeOK
<1>1. NoReply \in Reply
  BY DEF NoReply, Reply
<1>. SUFFICES ASSUME Init PROVE TypeOK
  OBVIOUS
<1>2. /\ call \in [Task -> Row \cup {NoRow}]
      /\ cursor \in [Task -> Cursor \cup {NoCursor}]
      /\ reply \in [Task -> Reply]
  BY <1>1 DEF Init
<1>3. sequence \in 0..MaxId /\ lastRowid \in 0..MaxId /\ now \in 0..MaxTime
  BY NumberAssumption DEF Init
<1>. QED  BY <1>2, <1>3 DEF Init, TypeOK

LEMMA TypeStep == TypeOK /\ [Next]_vars => TypeOK'
<1>. SUFFICES ASSUME TypeOK, [Next]_vars PROVE TypeOK'
  OBVIOUS
<1>. USE NumberAssumption DEF TypeOK
<1>1. ASSUME NEW t \in Task, NEW c \in Content, NEW l \in StoreLabel, NEW ttl \in Ttl,
             StoreMemory(t, c, l, ttl)
      PROVE  TypeOK'
  <2>. DEFINE m == [id |-> sequence + 1, content |-> c, scope |-> NormalizeScope(l),
                    created |-> now, expires |-> ExpiresAt(ttl)]
  <2>1. NormalizeScope(l) \in Scope
    BY ScopeAssumption, LabelAssumption DEF NormalizeScope, Label
  <2>2. m \in Row
    <3>1. ExpiresAt(ttl) \in Int \cup {Never}
      BY ExpiresAtType
    <3>2. sequence + 1 \in 1..MaxId
      BY <1>1 DEF StoreMemory
    <3>. QED  BY <2>1, <3>1, <3>2 DEF Row
  <2>. HIDE DEF m
  <2>3. /\ memory' = memory \cup {m}
        /\ call' = [call EXCEPT ![t] = m]
        /\ sequence' = sequence + 1 /\ lastRowid' = sequence + 1
        /\ sequence < MaxId
        /\ cursor' = Joined(m)
        /\ UNCHANGED <<now, up, told, reply>>
    BY <1>1 DEF StoreMemory, NextRowid, m
  <2>4. cursor' \in [Task -> Cursor \cup {NoCursor}]
    BY <2>2, <2>3, JoinedType
  <2>5. memory' \subseteq Row /\ call' \in [Task -> Row \cup {NoRow}]
    BY <2>2, <2>3
  <2>6. sequence' \in 0..MaxId /\ lastRowid' \in 0..MaxId
    BY <2>3
  <2>. QED  BY <2>3, <2>4, <2>5, <2>6
<1>2. ASSUME NEW t \in Task, ReportMemory(t) PROVE TypeOK'
  BY <1>2 DEF ReportMemory, Row
<1>3. ASSUME NEW t \in Task, NEW labels \in SUBSET FilterLabel, NEW q \in Query,
             NEW n \in Limit, OpenCursor(t, labels, q, n)
      PROVE  TypeOK'
  <2>. DEFINE asked == {l.scope : l \in labels}
              alive == {m \in memory : Unexpired(m)}
              c == [asked |-> asked, query |-> q, limit |-> n, since |-> now,
                    got |-> {}, ever |-> alive, always |-> alive]
  <2>1. asked \subseteq Scope \cup {Blank}
    BY LabelAssumption DEF Label
  <2>2. alive \subseteq Row
    OBVIOUS
  <2>. HIDE DEF asked, alive
  <2>3. c \in Cursor
    BY <2>1, <2>2 DEF Cursor
  <2>4. cursor' = [cursor EXCEPT ![t] = c] /\ reply' = [reply EXCEPT ![t] = NoReply]
    BY <1>3 DEF OpenCursor, asked, alive
  <2>5. NoReply \in Reply
    BY DEF NoReply, Reply
  <2>. HIDE DEF c
  <2>6. reply' \in [Task -> Reply] /\ cursor' \in [Task -> Cursor \cup {NoCursor}]
    BY <2>3, <2>4, <2>5
  <2>7. UNCHANGED <<memory, sequence, lastRowid, call, now, up, told>>
    BY <1>3 DEF OpenCursor
  <2>. QED  BY <2>6, <2>7
<1>11. ASSUME NEW t \in Task, FetchRow(t) PROVE TypeOK'
  <2>1. PICK m \in Ahead(cursor[t]) : cursor' = [cursor EXCEPT ![t].got = @ \cup {m}]
    BY <1>11 DEF FetchRow
  <2>2. m \in Row
    BY DEF Ahead
  <2>3. cursor[t] \in Cursor
    BY <1>11 DEF FetchRow
  <2>4. [cursor[t] EXCEPT !.got = @ \cup {m}] \in Cursor
    BY <2>2, <2>3 DEF Cursor
  <2>5. cursor' \in [Task -> Cursor \cup {NoCursor}]
    BY <2>1, <2>4
  <2>. QED  BY <1>11, <2>5 DEF FetchRow
<1>12. ASSUME NEW t \in Task, CloseCursor(t) PROVE TypeOK'
  <2>. DEFINE answer == [op |-> "read", asked |-> cursor[t].asked, rows |-> cursor[t].got]
  <2>1. answer \in Reply
    BY <1>12 DEF CloseCursor, Cursor, Reply
  <2>2. reply' = [reply EXCEPT ![t] = answer] /\ cursor' = [cursor EXCEPT ![t] = NoCursor]
    BY <1>12 DEF CloseCursor
  <2>. HIDE DEF answer
  <2>3. reply' \in [Task -> Reply] /\ cursor' \in [Task -> Cursor \cup {NoCursor}]
    BY <2>1, <2>2
  <2>4. UNCHANGED <<memory, sequence, lastRowid, call, now, up, told>>
    BY <1>12 DEF CloseCursor
  <2>. QED  BY <2>3, <2>4
<1>13. ASSUME NEW t \in Task, ReadFails(t) PROVE TypeOK'
  BY <1>13 DEF ReadFails
<1>4. ASSUME NEW t \in Task, NEW id \in 1..sequence, Forget(t, id) PROVE TypeOK'
  <2>1. cursor' \in [Task -> Cursor \cup {NoCursor}]
    BY <1>4, LeftType DEF Forget
  <2>. QED  BY <1>4, <2>1 DEF Forget
<1>5. ASSUME NEW t \in Task, NEW l \in PurgeLabel, PurgeScope(t, l) PROVE TypeOK'
  <2>. DEFINE answer == [op |-> "purge", asked |-> {l.scope}, rows |-> {}]
  <2>1. answer \in Reply
    BY LabelAssumption DEF Reply, Label
  <2>2. reply' = [reply EXCEPT ![t] = answer]
    BY <1>5 DEF PurgeScope
  <2>3. cursor' \in [Task -> Cursor \cup {NoCursor}]
    BY <1>5, LeftType DEF PurgeScope
  <2>. HIDE DEF answer
  <2>4. reply' \in [Task -> Reply]
    BY <2>1, <2>2
  <2>5. memory' \subseteq Row /\ UNCHANGED <<sequence, lastRowid, call, now, up, told>>
    BY <1>5 DEF PurgeScope
  <2>. QED  BY <2>3, <2>4, <2>5
<1>6. CASE PurgeExpired
  <2>1. memory' \subseteq memory
    BY <1>6 DEF PurgeExpired
  <2>2. cursor' \in [Task -> Cursor \cup {NoCursor}]
    BY <1>6, LeftType DEF PurgeExpired
  <2>. QED  BY <1>6, <2>1, <2>2 DEF PurgeExpired
<1>7. CASE Open
  <2>1. memory' \subseteq memory
    BY <1>7 DEF Open
  <2>2. lastRowid' \in 0..MaxId /\ up' \in BOOLEAN
    BY <1>7 DEF Open
  <2>. QED  BY <1>7, <2>1, <2>2 DEF Open
<1>8. CASE Crash
  BY <1>8 DEF Crash
<1>9. CASE Tick
  BY <1>9 DEF Tick
<1>10. CASE UNCHANGED vars
  BY <1>10 DEF vars
<1>. QED  BY <1>1, <1>2, <1>3, <1>4, <1>5, <1>6, <1>7, <1>8, <1>9, <1>10,
             <1>11, <1>12, <1>13
          DEF Next, Request

\* Every reachable state is well typed.
THEOREM TypeCorrect == Spec => []TypeOK
BY TypeInit, TypeStep, PTL DEF Spec

-----------------------------------------------------------------------------
(* Reads in progress *)

\* What a cursor has got: rows it asked for that existed, no more than its limit, and
\* every row it passed that has been there throughout.
Backed(c) ==
  /\ c.got \subseteq c.ever
  /\ \A m \in c.got : Selects(m, c)
  /\ IsFiniteSet(c.got)
  /\ c.limit >= 0 => Cardinality(c.got) <= c.limit
  /\ \A m \in c.always : Selects(m, c) => m \in c.got \/ \A g \in c.got : Newer(g, m)

\* The history of a cursor against the table: what has been there throughout is there,
\* and what is there and alive for the cursor has been noted.
Rooted(c, rows) ==
  /\ c.always \subseteq rows
  /\ \A m \in rows : AliveAt(m, c.since) => m \in c.ever

CursorInv ==
  /\ ~up => \A t \in Task : cursor[t] = NoCursor
  /\ \A t \in Task : cursor[t] # NoCursor =>
       Backed(cursor[t]) /\ Rooted(cursor[t], memory) /\ cursor[t].since <= now

LEMMA JoinedKeeps ==
  ASSUME TypeOK, CursorInv, NEW m, up, UNCHANGED <<now, up>>,
         cursor' = Joined(m), memory' = memory \cup {m}
  PROVE  CursorInv'
<1>1. ASSUME NEW t \in Task, cursor'[t] # NoCursor
      PROVE  Backed(cursor'[t]) /\ Rooted(cursor'[t], memory') /\ cursor'[t].since <= now'
  <2>. DEFINE c == cursor[t]
              d == cursor'[t]
  <2>1. c # NoCursor /\ d = [c EXCEPT !.ever = @ \cup {m}]
    BY <1>1 DEF Joined
  <2>2. c \in Cursor
    BY <2>1 DEF TypeOK
  <2>3. Backed(c) /\ Rooted(c, memory) /\ c.since <= now
    BY <2>1 DEF CursorInv
  <2>. HIDE DEF c, d
  <2>4. /\ d.got = c.got /\ d.limit = c.limit /\ d.always = c.always /\ d.since = c.since
        /\ d.query = c.query /\ d.asked = c.asked /\ d.ever = c.ever \cup {m}
    BY <2>1, <2>2 DEF Cursor
  <2>5. \A r : Selects(r, d) <=> Selects(r, c)
    BY <2>4 DEF Selects
  <2>6. Backed(d)
    BY <2>3, <2>4, <2>5 DEF Backed
  <2>7. Rooted(d, memory')
    BY <2>3, <2>4 DEF Rooted
  <2>. QED  BY <2>3, <2>4, <2>6, <2>7 DEF d
<1>. QED  BY <1>1 DEF CursorInv

LEMMA LeftKeeps ==
  ASSUME TypeOK, CursorInv, up, UNCHANGED <<now, up>>,
         cursor' = Left(memory'), memory' \subseteq memory
  PROVE  CursorInv'
<1>1. ASSUME NEW t \in Task, cursor'[t] # NoCursor
      PROVE  Backed(cursor'[t]) /\ Rooted(cursor'[t], memory') /\ cursor'[t].since <= now'
  <2>. DEFINE c == cursor[t]
              d == cursor'[t]
  <2>1. c # NoCursor /\ d = [c EXCEPT !.always = @ \cap memory']
    BY <1>1 DEF Left
  <2>2. c \in Cursor
    BY <2>1 DEF TypeOK
  <2>3. Backed(c) /\ Rooted(c, memory) /\ c.since <= now
    BY <2>1 DEF CursorInv
  <2>. HIDE DEF c, d
  <2>4. /\ d.got = c.got /\ d.limit = c.limit /\ d.ever = c.ever /\ d.since = c.since
        /\ d.query = c.query /\ d.asked = c.asked /\ d.always = c.always \cap memory'
    BY <2>1, <2>2 DEF Cursor
  <2>5. \A r : Selects(r, d) <=> Selects(r, c)
    BY <2>4 DEF Selects
  <2>6. Backed(d)
    BY <2>3, <2>4, <2>5 DEF Backed
  <2>7. Rooted(d, memory')
    BY <2>3, <2>4 DEF Rooted
  <2>. QED  BY <2>3, <2>4, <2>6, <2>7 DEF d
<1>. QED  BY <1>1 DEF CursorInv

LEMMA OpenKeeps ==
  ASSUME TypeOK, CursorInv, NEW t \in Task, NEW labels, NEW q, NEW n,
         OpenCursor(t, labels, q, n)
  PROVE  CursorInv'
<1>. DEFINE alive == {m \in memory : Unexpired(m)}
            c == [asked |-> {l.scope : l \in labels}, query |-> q, limit |-> n,
                  since |-> now, got |-> {}, ever |-> alive, always |-> alive]
<1>1. /\ cursor' = [cursor EXCEPT ![t] = c] /\ up
      /\ UNCHANGED <<memory, now, up>>
  BY DEF OpenCursor, Ready
<1>2. /\ c.got = {} /\ c.ever = alive /\ c.always = alive /\ c.since = now
      /\ alive \subseteq memory
      /\ \A m \in memory : AliveAt(m, now) => m \in alive
  BY DEF Unexpired
<1>3. now <= now
  BY NumberAssumption DEF TypeOK
<1>4. c.limit >= 0 => 0 <= c.limit
  BY SMT
<1>. HIDE DEF c, alive
<1>5. Cardinality({}) = 0 /\ IsFiniteSet({})
  BY FS_EmptySet
<1>6. Backed(c)
  BY <1>2, <1>4, <1>5 DEF Backed
<1>7. Rooted(c, memory)
  BY <1>2 DEF Rooted
<1>. QED  BY <1>1, <1>2, <1>3, <1>6, <1>7 DEF CursorInv, TypeOK

LEMMA FetchKeeps ==
  ASSUME TypeOK, CursorInv, NEW t \in Task, FetchRow(t)
  PROVE  CursorInv'
<1>. DEFINE c == cursor[t]
<1>1. PICK m \in Ahead(c) :
        /\ \A other \in Ahead(c) : other = m \/ Newer(m, other)
        /\ cursor' = [cursor EXCEPT ![t].got = @ \cup {m}]
  BY DEF FetchRow
<1>. DEFINE d == [c EXCEPT !.got = @ \cup {m}]
<1>2. c # NoCursor /\ UNCHANGED <<memory, now, up>>
  BY DEF FetchRow
<1>3. c \in Cursor /\ c.limit \in Int
  BY <1>2, NumberAssumption DEF TypeOK, Cursor
<1>4. Backed(c) /\ Rooted(c, memory) /\ c.since <= now
  BY <1>2 DEF CursorInv
<1>5. cursor' = [cursor EXCEPT ![t] = d]
  BY <1>1
<1>. HIDE DEF c
<1>6. /\ d.got = c.got \cup {m} /\ d.limit = c.limit /\ d.ever = c.ever
      /\ d.always = c.always /\ d.since = c.since /\ d.query = c.query /\ d.asked = c.asked
  BY <1>3 DEF Cursor
<1>. HIDE DEF d
<1>7. \A r : Selects(r, d) <=> Selects(r, c)
  BY <1>6 DEF Selects
<1>8. /\ ~(c.limit >= 0 /\ Cardinality(c.got) >= c.limit)
      /\ \A r : r \in Ahead(c) <=> r \in memory /\ Selects(r, c) /\ \A g \in c.got : Newer(g, r)
  <2>1. Ahead(c) # {}
    BY <1>1
  <2>. QED  BY <2>1 DEF Ahead
<1>9. m \in memory /\ Selects(m, c) /\ m \in c.ever
  <2>1. AliveAt(m, c.since)
    BY <1>1, <1>8 DEF Selects
  <2>. QED  BY <1>1, <1>4, <1>8, <2>1 DEF Rooted
<1>10. IsFiniteSet(d.got) /\ (d.limit >= 0 => Cardinality(d.got) <= d.limit)
  <2>1. IsFiniteSet(c.got)
    BY <1>4 DEF Backed
  <2>2. /\ IsFiniteSet(c.got \cup {m})
        /\ Cardinality(c.got \cup {m}) = Cardinality(c.got)
             \/ Cardinality(c.got \cup {m}) = Cardinality(c.got) + 1
    BY <2>1, FS_AddElement
  <2>3. Cardinality(c.got) \in Nat
    BY <2>1, FS_CardinalityType
  <2>. QED  BY <1>3, <1>6, <1>8, <2>2, <2>3
<1>11. ASSUME NEW r \in d.always, Selects(r, d), r \notin d.got, NEW g \in d.got
       PROVE  Newer(g, r)
  <2>1. \A a \in c.got : Newer(a, r)
    BY <1>4, <1>6, <1>7, <1>11 DEF Backed
  <2>2. r \in Ahead(c)
    BY <1>4, <1>6, <1>7, <1>8, <1>11, <2>1 DEF Rooted
  <2>3. Newer(m, r)
    BY <1>1, <1>6, <1>11, <2>2
  <2>. QED  BY <1>6, <1>11, <2>1, <2>3
<1>12. Backed(d)
  <2>1. d.got \subseteq d.ever
    BY <1>4, <1>6, <1>9 DEF Backed
  <2>2. \A r \in d.got : Selects(r, d)
    BY <1>4, <1>6, <1>7, <1>9 DEF Backed
  <2>. QED  BY <1>10, <1>11, <2>1, <2>2 DEF Backed
<1>13. Rooted(d, memory)
  BY <1>4, <1>6 DEF Rooted
<1>14. d.since <= now
  BY <1>4, <1>6
<1>15. \A u \in Task : cursor'[u] = IF u = t THEN d ELSE cursor[u]
  BY <1>5 DEF TypeOK
<1>16. up
  BY <1>2 DEF CursorInv, c
<1>. QED  BY <1>2, <1>12, <1>13, <1>14, <1>15, <1>16, Zenon DEF CursorInv

LEMMA CursorStep ==
  ASSUME TypeOK, CursorInv, [Next]_vars
  PROVE  CursorInv'
<1>1. ASSUME NEW t \in Task, NEW c \in Content, NEW l \in StoreLabel, NEW ttl \in Ttl,
             StoreMemory(t, c, l, ttl)
      PROVE  CursorInv'
  <2>1. PICK m : /\ memory' = memory \cup {m} /\ cursor' = Joined(m)
                 /\ up /\ UNCHANGED <<now, up>>
    BY <1>1, Zenon DEF StoreMemory, Ready
  <2>. QED  BY <2>1, JoinedKeeps
<1>2. ASSUME NEW t \in Task, CloseCursor(t) \/ ReadFails(t) PROVE CursorInv'
  BY <1>2 DEF CloseCursor, ReadFails, CursorInv, TypeOK
<1>3. ASSUME NEW t \in Task, NEW id, Forget(t, id) PROVE CursorInv'
  BY <1>3, LeftKeeps DEF Forget, Ready
<1>4. ASSUME NEW t \in Task, NEW l, PurgeScope(t, l) PROVE CursorInv'
  BY <1>4, LeftKeeps DEF PurgeScope, Ready
<1>5. CASE PurgeExpired
  BY <1>5, LeftKeeps DEF PurgeExpired
<1>6. CASE Crash
  BY <1>6 DEF Crash, CursorInv
<1>7. CASE Open
  <2>1. \A t \in Task : cursor'[t] = NoCursor
    BY <1>7 DEF Open, CursorInv
  <2>. QED  BY <2>1 DEF CursorInv
<1>8. CASE Tick
  <2>1. \A i \in Int : i <= now => i <= now + 1
    BY NumberAssumption DEF TypeOK
  <2>2. \A t \in Task : cursor[t] # NoCursor => cursor[t].since \in Int
    BY NumberAssumption DEF TypeOK, Cursor
  <2>. QED  BY <1>8, <2>1, <2>2 DEF Tick, CursorInv
<1>9. CASE (\E t \in Task : ReportMemory(t)) \/ UNCHANGED vars
  BY <1>9 DEF ReportMemory, vars, CursorInv
<1>10. ASSUME NEW t \in Task, Request(t) PROVE CursorInv'
  BY <1>1, <1>2, <1>3, <1>4, <1>9, <1>10, OpenKeeps, FetchKeeps, Zenon DEF Request
<1>. QED  BY <1>5, <1>6, <1>7, <1>8, <1>9, <1>10 DEF Next

-----------------------------------------------------------------------------
(* Implementation of ScopedMemory *)

\* The memories a client can see, and the reads as their clients think of them.
Visible == {m \in memory : Unexpired(m)}

Views == [t \in Task |-> ViewOf(cursor[t])]

LEMMA ViewType ==
  ASSUME TypeOK, NEW t \in Task, cursor[t] # NoCursor
  PROVE  Views[t] = [asked |-> cursor[t].asked, query |-> cursor[t].query,
                     limit |-> cursor[t].limit, ever |-> cursor[t].ever,
                     always |-> {m \in cursor[t].always : Unexpired(m)}]
         /\ Views[t] # NoCursor
<1>. DEFINE c == cursor[t]
            alive == {m \in c.always : Unexpired(m)}
            v == [asked |-> c.asked, query |-> c.query, limit |-> c.limit, ever |-> c.ever,
                  always |-> alive]
<1>1. c \in Cursor
  BY DEF TypeOK
<1>2. Views[t] = v
  BY DEF Views, ViewOf
<1>. HIDE DEF c
<1>3. alive \subseteq Row
  BY <1>1 DEF Cursor
<1>. HIDE DEF alive
<1>4. v \in View
  BY <1>1, <1>3 DEF View, Cursor
<1>. HIDE DEF v
<1>5. v # NoCursor
  BY <1>4, NoCursorAssumption
<1>. QED  BY <1>2, <1>5 DEF v, alive, c

LEMMA ViewIdle ==
  ASSUME TypeOK, NEW t \in Task
  PROVE  Views[t] = NoCursor <=> cursor[t] = NoCursor
<1>1. CASE cursor[t] = NoCursor
  BY <1>1 DEF Views, ViewOf
<1>2. CASE cursor[t] # NoCursor
  BY <1>2, ViewType
<1>. QED  BY <1>1, <1>2

LEMMA JoinedView ==
  ASSUME TypeOK, now' = now, NEW m \in Row, cursor' = Joined(m)
  PROVE  Views' = Promised!Joined(m)
<1>1. ASSUME NEW t \in Task
      PROVE  Views'[t] = IF Views[t] = NoCursor THEN NoCursor
                         ELSE [Views[t] EXCEPT !.ever = @ \cup {m}]
  <2>1. CASE cursor[t] = NoCursor
    <3>1. cursor'[t] = NoCursor
      BY <2>1 DEF Joined
    <3>. QED  BY <2>1, <3>1, ViewIdle DEF Views, ViewOf
  <2>2. CASE cursor[t] # NoCursor
    <3>. DEFINE c == cursor[t]
                d == cursor'[t]
    <3>1. d = [c EXCEPT !.ever = @ \cup {m}] /\ c \in Cursor
      BY <2>2 DEF Joined, TypeOK
    <3>. HIDE DEF c, d
    <3>2. /\ d.asked = c.asked /\ d.query = c.query /\ d.limit = c.limit
          /\ d.always = c.always /\ d.ever = c.ever \cup {m}
      BY <3>1 DEF Cursor
    <3>3. d # NoCursor
      <4>1. d \in Cursor
        BY <3>1 DEF Cursor
      <4>. QED  BY <4>1, NoCursorAssumption
    <3>. DEFINE alive == {r \in c.always : Unexpired(r)}
    <3>4. alive = {r \in d.always : Unexpired(r)'}
      <4>1. \A r : Unexpired(r)' <=> Unexpired(r)
        BY DEF Unexpired, AliveAt
      <4>. QED  BY <3>2, <4>1
    <3>5. Views'[t] = [asked |-> c.asked, query |-> c.query, limit |-> c.limit,
                       ever |-> c.ever \cup {m}, always |-> alive]
      BY <3>2, <3>3, <3>4, Zenon DEF Views, ViewOf, d
    <3>6. /\ Views[t] = [asked |-> c.asked, query |-> c.query, limit |-> c.limit,
                         ever |-> c.ever, always |-> alive]
          /\ Views[t] # NoCursor
      BY <2>2, ViewType, Zenon DEF c
    <3>. HIDE DEF alive
    <3>. QED  BY <3>5, <3>6
  <2>. QED  BY <2>1, <2>2
<1>. QED  BY <1>1 DEF Promised!Joined, Views

LEMMA LeftView ==
  ASSUME TypeOK, now' = now, cursor' = Left(memory')
  PROVE  Views' = Promised!Left(Visible')
<1>1. ASSUME NEW t \in Task
      PROVE  Views'[t] = IF Views[t] = NoCursor THEN NoCursor
                         ELSE [Views[t] EXCEPT !.always = @ \cap Visible']
  <2>1. CASE cursor[t] = NoCursor
    <3>1. cursor'[t] = NoCursor
      BY <2>1 DEF Left
    <3>. QED  BY <2>1, <3>1, ViewIdle DEF Views, ViewOf
  <2>2. CASE cursor[t] # NoCursor
    <3>. DEFINE c == cursor[t]
                d == cursor'[t]
    <3>1. d = [c EXCEPT !.always = @ \cap memory'] /\ c \in Cursor
      BY <2>2 DEF Left, TypeOK
    <3>. HIDE DEF c, d
    <3>2. /\ d.asked = c.asked /\ d.query = c.query /\ d.limit = c.limit
          /\ d.ever = c.ever /\ d.always = c.always \cap memory'
      BY <3>1 DEF Cursor
    <3>3. d # NoCursor
      <4>1. d \in Cursor
        BY <3>1 DEF Cursor
      <4>. QED  BY <4>1, NoCursorAssumption
    <3>. DEFINE alive == {r \in c.always : Unexpired(r)}
    <3>4. alive \cap Visible' = {r \in d.always : Unexpired(r)'}
      <4>1. \A r : Unexpired(r)' <=> Unexpired(r)
        BY DEF Unexpired, AliveAt
      <4>. QED  BY <3>2, <4>1 DEF Visible
    <3>5. Views'[t] = [asked |-> c.asked, query |-> c.query, limit |-> c.limit,
                       ever |-> c.ever, always |-> alive \cap Visible']
      BY <3>2, <3>3, <3>4, Zenon DEF Views, ViewOf, d
    <3>6. /\ Views[t] = [asked |-> c.asked, query |-> c.query, limit |-> c.limit,
                         ever |-> c.ever, always |-> alive]
          /\ Views[t] # NoCursor
      BY <2>2, ViewType, Zenon DEF c
    <3>. DEFINE seen == Visible'
    <3>. HIDE DEF alive, seen
    <3>7. [Views[t] EXCEPT !.always = @ \cap seen]
            = [asked |-> c.asked, query |-> c.query, limit |-> c.limit,
               ever |-> c.ever, always |-> alive \cap seen]
      BY <3>6
    <3>. QED  BY <3>5, <3>6, <3>7 DEF seen
  <2>. QED  BY <2>1, <2>2
<1>. QED  BY <1>1 DEF Promised!Left, Views

\* A deadline that fits the width of integers is the one that was meant; any other is
\* some integer of that width.
LEMMA DeadlineIsPromised ==
  ASSUME TypeOK, NEW ttl \in Ttl
  PROVE  ExpiresAt(ttl) \in Promised!Deadlines(ttl)
<1>1. now \in Int /\ now >= 0 /\ ttl \in Int /\ MaxInt \in Nat
  BY NumberAssumption DEF TypeOK
<1>2. CASE ttl > 0 /\ now + ttl * Millis <= MaxInt
  <2>. DEFINE p == ttl * Millis
  <2>1. p \in Int /\ p > 0 /\ now + p <= MaxInt
    BY <1>1, <1>2, ProductFits
  <2>2. /\ ExpiresAt(ttl) = Wrap(now + Wrap(p))
        /\ Promised!Deadlines(ttl) = {now + p}
    BY <1>1, <1>2 DEF ExpiresAt, Promised!Deadlines
  <2>. HIDE DEF p
  <2>3. Fits(p) /\ Fits(now + p)
    BY <1>1, <2>1 DEF Fits
  <2>4. Wrap(p) = p /\ Wrap(now + p) = now + p
    BY <2>3 DEF Wrap
  <2>. QED  BY <2>2, <2>4
<1>3. CASE ttl > 0 /\ ~(now + ttl * Millis <= MaxInt)
  <2>1. Promised!Deadlines(ttl) = (-MaxInt - 1)..MaxInt
    BY <1>1, <1>3 DEF Promised!Deadlines
  <2>. QED  BY <1>3, <2>1, ExpiresAtType DEF TypeOK
<1>4. CASE ~(ttl > 0)
  <2>1. ttl <= 0
    BY <1>1, <1>4
  <2>. QED  BY <1>4, <2>1 DEF ExpiresAt, Promised!Deadlines
<1>. QED  BY <1>2, <1>3, <1>4

LEMMA StoreImplements ==
  ASSUME TypeOK, NEW t \in Task, NEW c \in Content, NEW l \in StoreLabel,
         NEW ttl \in Ttl, StoreMemory(t, c, l, ttl)
  PROVE  Promised!Store
<1>. DEFINE s == NormalizeScope(l)
            d == ExpiresAt(ttl)
            m == [id |-> sequence + 1, content |-> c, scope |-> s, created |-> now,
                  expires |-> d]
<1>1. s \in Scope
  BY ScopeAssumption, LabelAssumption DEF NormalizeScope, Label
<1>2. d \in Promised!Deadlines(ttl) /\ d \in Int \cup {Never}
  BY DeadlineIsPromised, ExpiresAtType DEF TypeOK
<1>3. /\ memory' = memory \cup {m}
      /\ sequence' = sequence + 1
      /\ cursor' = Joined(m)
      /\ sequence < MaxId
      /\ now' = now /\ reply' = reply
  BY DEF StoreMemory, NextRowid
<1>. HIDE DEF s, d
<1>4. m \in Row
  <2>1. sequence + 1 \in 1..MaxId
    BY <1>3, NumberAssumption DEF TypeOK
  <2>. QED  BY <1>1, <1>2, <2>1 DEF TypeOK, Row
<1>5. Visible' = IF d = Never \/ d > now THEN Visible \cup {m} ELSE Visible
  <2>1. m.expires = d
    OBVIOUS
  <2>. HIDE DEF m
  <2>2. Unexpired(m) <=> d = Never \/ d > now
    BY <2>1 DEF Unexpired, AliveAt
  <2>3. Visible' = {r \in memory \cup {m} : Unexpired(r)}
    BY <1>3 DEF Visible, Unexpired, AliveAt
  <2>. QED  BY <2>2, <2>3 DEF Visible
<1>6. Views' = Promised!Joined(m)
  BY <1>3, <1>4, JoinedView
<1>. QED  BY <1>1, <1>2, <1>3, <1>5, <1>6, Zenon DEF Promised!Store, Visible, Views

LEMMA OpenImplements ==
  ASSUME TypeOK, NEW t \in Task, NEW labels \in SUBSET FilterLabel, NEW q \in Query,
         NEW n \in Limit, OpenCursor(t, labels, q, n)
  PROVE  Promised!Ask
<1>. DEFINE asked == {l.scope : l \in labels}
            alive == Visible
            v == [asked |-> asked, query |-> q, limit |-> n, ever |-> alive,
                  always |-> alive]
            c == [asked |-> asked, query |-> q, limit |-> n, since |-> now,
                  got |-> {}, ever |-> alive, always |-> alive]
<1>1. asked \in SUBSET (Scope \cup {Blank})
  BY LabelAssumption DEF Label
<1>2. /\ cursor[t] = NoCursor
      /\ cursor' = [cursor EXCEPT ![t] = c]
      /\ reply' = [reply EXCEPT ![t] = NoReply]
      /\ UNCHANGED <<memory, sequence, now>>
  BY DEF OpenCursor, Ready, Visible
<1>3. \A m : Unexpired(m)' <=> Unexpired(m)
  BY <1>2 DEF Unexpired, AliveAt
<1>4. alive \subseteq Row /\ now \in 0..MaxTime /\ alive = {m \in alive : Unexpired(m)'}
  BY <1>3 DEF TypeOK, Visible
<1>. HIDE DEF asked, alive
<1>5. c \in Cursor /\ c # NoCursor
  <2>1. c \in Cursor
    BY <1>1, <1>4 DEF Cursor
  <2>. QED  BY <2>1, NoCursorAssumption
<1>6. /\ c.asked = asked /\ c.query = q /\ c.limit = n
      /\ c.ever = alive /\ c.always = alive
  OBVIOUS
<1>. HIDE DEF c
<1>7. Views'[t] = v
  <2>1. cursor'[t] = c
    BY <1>2 DEF TypeOK
  <2>2. Views'[t] = [asked |-> c.asked, query |-> c.query, limit |-> c.limit,
                     ever |-> c.ever, always |-> {m \in c.always : Unexpired(m)'}]
    BY <1>5, <2>1, Zenon DEF Views, ViewOf
  <2>. QED  BY <1>4, <1>6, <2>2, Zenon
<1>. HIDE DEF v
<1>8. Views' = [Views EXCEPT ![t] = v]
  <2>1. ASSUME NEW u \in Task, u # t PROVE Views'[u] = Views[u]
    <3>1. cursor'[u] = cursor[u]
      BY <1>2, <2>1 DEF TypeOK
    <3>. QED  BY <1>3, <3>1 DEF Views, ViewOf
  <2>. QED  BY <1>7, <2>1 DEF Views
<1>9. Views[t] = NoCursor
  BY <1>2, ViewIdle
<1>10. Visible' = Visible
  BY <1>2, <1>3 DEF Visible
<1>. QED  BY <1>1, <1>2, <1>8, <1>9, <1>10, Zenon
          DEF Promised!Ask, Promised!Unanswered, NoReply, Views, Visible, v, alive

\* What the cursor c selects is what the client asked for and was alive at its start.
LEMMA SelectsWhatIsAsked ==
  ASSUME NEW c, NEW v, v.asked = c.asked, v.query = c.query, NEW m, m.scope # Blank
  PROVE  Selects(m, c) <=> AliveAt(m, c.since) /\ Promised!Matches(m, v)
<1>1. KeptScopes(c.asked) = {} <=> c.asked \subseteq {Blank}
  BY DEF KeptScopes
<1>2. m.scope \in KeptScopes(c.asked) <=> m.scope \in c.asked
  BY DEF KeptScopes
<1>. QED  BY <1>1, <1>2 DEF Selects, Promised!Matches

LEMMA CloseImplements ==
  ASSUME TypeOK, CursorInv, NEW t \in Task, CloseCursor(t)
  PROVE  Promised!Answer
<1>. DEFINE c == cursor[t]
            v == Views[t]
            rows == c.got
<1>1. c # NoCursor /\ c \in Cursor /\ Ahead(c) = {}
  BY DEF CloseCursor, TypeOK
<1>2. /\ v # NoCursor /\ v.asked = c.asked /\ v.query = c.query /\ v.limit = c.limit
      /\ v.ever = c.ever /\ v.always = {m \in c.always : Unexpired(m)}
  <2>. DEFINE alive == {m \in c.always : Unexpired(m)}
  <2>1. /\ v = [asked |-> c.asked, query |-> c.query, limit |-> c.limit,
                ever |-> c.ever, always |-> alive]
        /\ v # NoCursor
    BY <1>1, ViewType, Zenon
  <2>. HIDE DEF alive, c, v
  <2>2. /\ v.asked = c.asked /\ v.query = c.query /\ v.limit = c.limit
        /\ v.ever = c.ever /\ v.always = alive
    BY <2>1
  <2>. QED  BY <2>1, <2>2 DEF alive
<1>3. Backed(c) /\ Rooted(c, memory) /\ c.since <= now
  BY <1>1 DEF CursorInv
<1>4. /\ cursor' = [cursor EXCEPT ![t] = NoCursor]
      /\ reply' = [reply EXCEPT ![t] = [op |-> "read", asked |-> v.asked, rows |-> rows]]
      /\ UNCHANGED <<memory, sequence, now>>
  BY <1>2 DEF CloseCursor
<1>5. Visible' = Visible /\ Views' = [Views EXCEPT ![t] = NoCursor]
  <2>1. \A m : Unexpired(m)' <=> Unexpired(m)
    BY <1>4 DEF Unexpired, AliveAt
  <2>2. \A u \in Task : cursor'[u] = IF u = t THEN NoCursor ELSE cursor[u]
    BY <1>4 DEF TypeOK
  <2>3. Visible' = Visible
    BY <1>4, <2>1 DEF Visible
  <2>4. \A u \in Task : Views'[u] = IF u = t THEN NoCursor ELSE Views[u]
    BY <2>1, <2>2 DEF Views, ViewOf
  <2>. QED  BY <2>3, <2>4 DEF Views
<1>. HIDE DEF c, v
<1>6. /\ c.asked \subseteq Scope \cup {Blank} /\ c.since \in Int /\ c.limit \in Int
      /\ c.got \subseteq Row /\ c.always \subseteq Row
  <2>1. c.since \in 0..MaxTime /\ c.limit \in Limit
    BY <1>1 DEF Cursor
  <2>2. c.since \in Int /\ c.limit \in Int
    <3>1. Limit \subseteq Int /\ \A i \in 0..MaxTime : i \in Int
      BY NumberAssumption
    <3>. QED  BY <2>1, <3>1, Zenon
  <2>. QED  BY <1>1, <2>2 DEF Cursor
<1>7. \A m \in Row : Selects(m, c) <=> AliveAt(m, c.since) /\ Promised!Matches(m, v)
  <2>1. \A m \in Row : m.scope # Blank
    BY ScopeAssumption DEF Row
  <2>. QED  BY <1>2, <1>6, <2>1, SelectsWhatIsAsked
<1>8. \A m \in rows : m \in v.ever /\ Promised!Matches(m, v)
  BY <1>2, <1>3, <1>6, <1>7 DEF Backed
<1>9. v.limit >= 0 => Cardinality(rows) <= v.limit
  BY <1>2, <1>3 DEF Backed
<1>10. ASSUME NEW m \in v.always, Promised!Matches(m, v), m \notin rows
       PROVE  v.limit >= 0 /\ Cardinality({a \in rows : Newer(a, m)}) >= v.limit
  <2>1. m \in c.always /\ m \in Row /\ Unexpired(m) /\ m \in memory
    BY <1>2, <1>3, <1>6, <1>10 DEF Rooted
  <2>2. AliveAt(m, c.since)
    <3>1. m.expires \in Int \cup {Never} /\ now \in Int
      BY <2>1, NumberAssumption DEF Row, TypeOK
    <3>. QED  BY <1>3, <1>6, <2>1, <3>1 DEF Unexpired, AliveAt
  <2>3. Selects(m, c)
    BY <1>7, <1>10, <2>1, <2>2
  <2>4. \A g \in rows : Newer(g, m)
    BY <1>3, <1>10, <2>1, <2>3 DEF Backed
  <2>5. c.limit >= 0 /\ Cardinality(rows) >= c.limit
    BY <1>1, <2>1, <2>3, <2>4 DEF Ahead
  <2>6. {a \in rows : Newer(a, m)} = rows
    BY <2>4
  <2>. QED  BY <1>2, <2>5, <2>6
<1>11. Promised!Answers(v, rows)
  BY <1>8, <1>9, <1>10 DEF Promised!Answers
<1>12. rows \in SUBSET v.ever
  BY <1>8
<1>. HIDE DEF rows
<1>. QED  BY <1>2, <1>4, <1>5, <1>11, <1>12, Zenon DEF Promised!Answer, Views, Visible, v

LEMMA FailImplements ==
  ASSUME TypeOK, (\E t \in Task : ReadFails(t)) \/ Crash
  PROVE  Promised!Fail
<1>1. UNCHANGED <<memory, sequence, now, reply>>
  BY DEF ReadFails, Crash
<1>2. \A m : Unexpired(m)' <=> Unexpired(m)
  BY <1>1 DEF Unexpired, AliveAt
<1>3. Visible' = Visible
  BY <1>1, <1>2 DEF Visible
<1>4. PICK T \in SUBSET Task :
        \A u \in Task : cursor'[u] = IF u \in T THEN NoCursor ELSE cursor[u]
  <2>1. CASE Crash
    BY <2>1 DEF Crash
  <2>2. CASE \E t \in Task : ReadFails(t)
    <3>1. PICK t \in Task : cursor' = [cursor EXCEPT ![t] = NoCursor]
      BY <2>2 DEF ReadFails
    <3>2. \A u \in Task : cursor'[u] = IF u \in {t} THEN NoCursor ELSE cursor[u]
      BY <3>1 DEF TypeOK
    <3>. QED  BY <3>2
  <2>. QED  BY <2>1, <2>2
<1>5. ASSUME NEW u \in Task
      PROVE  Views'[u] = IF u \in T THEN NoCursor ELSE Views[u]
  <2>1. CASE u \in T
    BY <1>4, <2>1 DEF Views, ViewOf
  <2>2. CASE u \notin T
    BY <1>2, <1>4, <2>2 DEF Views, ViewOf
  <2>. QED  BY <2>1, <2>2
<1>6. Views' = [u \in Task |-> IF u \in T THEN NoCursor ELSE Views[u]]
  BY <1>5 DEF Views
<1>. QED  BY <1>1, <1>3, <1>4, <1>6, Zenon DEF Promised!Fail, Views, Visible

LEMMA ForgetImplements ==
  ASSUME TypeOK, NEW t \in Task, NEW id \in 1..sequence, Forget(t, id)
  PROVE  Promised!Forget
<1>1. /\ memory' = {m \in memory : m.id # id} /\ cursor' = Left(memory')
      /\ UNCHANGED <<sequence, now, reply>>
  BY DEF Forget
<1>2. Visible' = {m \in Visible : m.id # id}
  BY <1>1 DEF Visible, Unexpired, AliveAt
<1>3. Views' = Promised!Left(Visible')
  BY <1>1, LeftView
<1>. QED  BY <1>1, <1>2, <1>3, Zenon DEF Promised!Forget, Visible, Views

LEMMA PurgeImplements ==
  ASSUME TypeOK, NEW t \in Task, NEW l \in PurgeLabel, ~l.padded, PurgeScope(t, l)
  PROVE  Promised!Purge
<1>. DEFINE s == l.scope
<1>1. s \in Scope \cup {Blank}
  BY LabelAssumption DEF Label
<1>2. NamedBy(l) = {m \in memory : m.scope = s}
  BY DEF NamedBy
<1>. HIDE DEF s
<1>3. /\ memory' = memory \ NamedBy(l)
      /\ cursor' = Left(memory')
      /\ reply' = [reply EXCEPT ![t] = [op |-> "purge", asked |-> {s}, rows |-> {}]]
      /\ UNCHANGED <<sequence, now>>
  BY DEF PurgeScope, s
<1>4. Visible' = {m \in Visible : m.scope # s}
  BY <1>2, <1>3 DEF Visible, Unexpired, AliveAt
<1>5. Views' = Promised!Left(Visible')
  BY <1>3, LeftView
<1>. QED  BY <1>1, <1>3, <1>4, <1>5, Zenon DEF Promised!Purge, Visible, Views

\* What has expired at an instant has expired at a later one.
LEMMA ExpiredStays ==
  ASSUME TypeOK, NEW m \in Row, AliveAt(m, now + 1)
  PROVE  AliveAt(m, now)
<1>1. m.expires \in Int \cup {Never} /\ now \in Int
  BY NumberAssumption DEF TypeOK, Row
<1>. QED  BY <1>1 DEF AliveAt

LEMMA TickImplements ==
  ASSUME TypeOK, CursorInv, Tick
  PROVE  Promised!Tick
<1>1. memory' = memory /\ now' = now + 1 /\ UNCHANGED <<sequence, cursor, reply>>
  BY DEF Tick
<1>2. \A m : Unexpired(m)' <=> AliveAt(m, now + 1)
  BY <1>1 DEF Unexpired, AliveAt
<1>3. Visible' = {m \in Visible : m.expires = Never \/ m.expires > now'}
  <2>1. Visible' = {m \in memory : AliveAt(m, now + 1)}
    BY <1>1, <1>2 DEF Visible
  <2>2. \A m \in memory : AliveAt(m, now + 1) => AliveAt(m, now)
    BY ExpiredStays DEF TypeOK
  <2>. QED  BY <1>1, <2>1, <2>2 DEF Visible, Unexpired, AliveAt
<1>4. ASSUME NEW t \in Task
      PROVE  Views'[t] = IF Views[t] = NoCursor THEN NoCursor
                         ELSE [Views[t] EXCEPT !.always = @ \cap Visible']
  <2>1. CASE cursor[t] = NoCursor
    BY <1>1, <2>1, ViewIdle DEF Views, ViewOf
  <2>2. CASE cursor[t] # NoCursor
    <3>. DEFINE c == cursor[t]
                alive == {m \in c.always : Unexpired(m)}
                seen == Visible'
    <3>1. c.always \subseteq memory /\ c.always \subseteq Row
      BY <2>2 DEF CursorInv, Rooted, TypeOK
    <3>2. alive \cap seen = {m \in c.always : Unexpired(m)'}
      <4>1. \A m \in c.always : AliveAt(m, now + 1) => AliveAt(m, now)
        BY <3>1, ExpiredStays
      <4>. QED  BY <1>1, <1>2, <3>1, <4>1 DEF Visible, Unexpired
    <3>3. Views'[t] = [asked |-> c.asked, query |-> c.query, limit |-> c.limit,
                       ever |-> c.ever, always |-> alive \cap seen]
      BY <1>1, <2>2, <3>2, Zenon DEF Views, ViewOf
    <3>4. /\ Views[t] = [asked |-> c.asked, query |-> c.query, limit |-> c.limit,
                         ever |-> c.ever, always |-> alive]
          /\ Views[t] # NoCursor
      BY <2>2, ViewType, Zenon
    <3>. HIDE DEF alive, seen, c
    <3>5. [Views[t] EXCEPT !.always = @ \cap seen]
            = [asked |-> c.asked, query |-> c.query, limit |-> c.limit,
               ever |-> c.ever, always |-> alive \cap seen]
      BY <3>4
    <3>. QED  BY <3>3, <3>4, <3>5 DEF seen
  <2>. QED  BY <2>1, <2>2
<1>5. Views' = Promised!Left(Visible')
  BY <1>4 DEF Promised!Left, Views
<1>. QED  BY <1>1, <1>3, <1>5, Zenon DEF Promised!Tick, Visible, Views

\* Neither a sweep nor a restart shows.
LEMMA SweepIsHidden ==
  ASSUME TypeOK, CursorInv,
         PurgeExpired \/ Open \/ (\E t \in Task : ReportMemory(t)) \/ UNCHANGED vars
  PROVE  UNCHANGED <<Visible, sequence, now, Views, reply>>
<1>1. UNCHANGED <<sequence, now, reply>>
  BY DEF PurgeExpired, Open, ReportMemory, vars
<1>2. \A m : Unexpired(m)' <=> Unexpired(m)
  BY <1>1 DEF Unexpired, AliveAt
<1>3. Visible' = Visible
  <2>1. memory' = memory \/ memory' = Visible
    BY DEF PurgeExpired, Open, ReportMemory, vars, Visible
  <2>. QED  BY <1>2, <2>1 DEF Visible
<1>4. CASE UNCHANGED cursor
  BY <1>1, <1>2, <1>3, <1>4 DEF Views, ViewOf
<1>5. CASE PurgeExpired
  <2>1. Views' = Promised!Left(Visible')
    BY <1>1, <1>5, LeftView DEF PurgeExpired
  <2>2. ASSUME NEW t \in Task PROVE Views'[t] = Views[t]
    <3>1. Views'[t] = IF Views[t] = NoCursor THEN NoCursor
                      ELSE [Views[t] EXCEPT !.always = @ \cap Visible]
      BY <1>3, <2>1, Zenon DEF Promised!Left, Views
    <3>2. CASE cursor[t] # NoCursor
      <4>. DEFINE c == cursor[t]
                  alive == {m \in c.always : Unexpired(m)}
      <4>1. alive \cap Visible = alive
        BY <3>2 DEF CursorInv, Rooted, Visible
      <4>2. /\ Views[t] = [asked |-> c.asked, query |-> c.query, limit |-> c.limit,
                           ever |-> c.ever, always |-> alive]
            /\ Views[t] # NoCursor
        BY <3>2, ViewType, Zenon
      <4>. HIDE DEF alive, c
      <4>. QED  BY <3>1, <4>1, <4>2
    <3>3. CASE cursor[t] = NoCursor
      BY <3>1, <3>3, ViewIdle
    <3>. QED  BY <3>2, <3>3
  <2>. QED  BY <1>1, <1>3, <2>2 DEF Views
<1>. QED  BY <1>4, <1>5 DEF Open, ReportMemory, vars

\* Nor does a row fetched by a read that goes on.
LEMMA FetchIsHidden ==
  ASSUME TypeOK, NEW t \in Task, FetchRow(t)
  PROVE  UNCHANGED <<Visible, sequence, now, Views, reply>>
<1>1. UNCHANGED <<memory, sequence, now, reply>>
  BY DEF FetchRow
<1>2. \A m : Unexpired(m)' <=> Unexpired(m)
  BY <1>1 DEF Unexpired, AliveAt
<1>. DEFINE c == cursor[t]
            d == cursor'[t]
<1>3. PICK m \in Row : cursor' = [cursor EXCEPT ![t].got = @ \cup {m}]
  BY DEF FetchRow, Ahead, TypeOK
<1>4. c \in Cursor /\ c # NoCursor /\ d = [c EXCEPT !.got = @ \cup {m}]
  BY <1>3 DEF FetchRow, TypeOK
<1>5. \A u \in Task : u # t => cursor'[u] = cursor[u]
  BY <1>3 DEF TypeOK
<1>. HIDE DEF c, d
<1>6. /\ d.asked = c.asked /\ d.query = c.query /\ d.limit = c.limit
      /\ d.ever = c.ever /\ d.always = c.always
  BY <1>4 DEF Cursor
<1>7. d # NoCursor
  <2>1. d \in Cursor
    BY <1>4 DEF Cursor
  <2>. QED  BY <2>1, NoCursorAssumption
<1>8. ASSUME NEW u \in Task PROVE Views'[u] = Views[u]
  <2>1. CASE u = t
    <3>. DEFINE alive == {r \in c.always : Unexpired(r)}
    <3>1. alive = {r \in d.always : Unexpired(r)'}
      BY <1>2, <1>6
    <3>2. Views'[t] = [asked |-> c.asked, query |-> c.query, limit |-> c.limit,
                       ever |-> c.ever, always |-> alive]
      BY <1>6, <1>7, <3>1, Zenon DEF Views, ViewOf, d
    <3>3. Views[t] = [asked |-> c.asked, query |-> c.query, limit |-> c.limit,
                      ever |-> c.ever, always |-> alive]
      BY <1>4, Zenon DEF Views, ViewOf, c
    <3>. QED  BY <2>1, <3>2, <3>3
  <2>2. CASE u # t
    BY <1>2, <1>5, <2>2 DEF Views, ViewOf
  <2>. QED  BY <2>1, <2>2
<1>. QED  BY <1>1, <1>2, <1>8 DEF Visible, Views

\* Whatever requests overlap, wherever the process stops and whether or not integers
\* wrap, clients whose purges need no trimming see the memories ScopedMemory promises.
THEOREM Implementation ==
  ASSUME \A l \in PurgeLabel : ~l.padded
  PROVE  Spec => ImplementsScopedMemory
<1>1. Init => Promised!Init /\ CursorInv
  <2>. SUFFICES ASSUME Init PROVE Promised!Init /\ CursorInv
    OBVIOUS
  <2>1. Visible = {} /\ Views = [t \in Task |-> NoCursor]
    BY DEF Init, Visible, Views, ViewOf
  <2>2. Promised!Init
    BY <2>1, Zenon DEF Init, NoReply, Promised!Init, Promised!Unanswered, Visible, Views
  <2>. QED  BY <2>2 DEF Init, CursorInv
<1>2. TypeOK /\ CursorInv /\ [Next]_vars => [Promised!Next]_Promised!vars
  <2>. SUFFICES ASSUME TypeOK, CursorInv, [Next]_vars, ~UNCHANGED Promised!vars
                PROVE  Promised!Next
    OBVIOUS
  <2>1. ~(PurgeExpired \/ Open \/ (\E t \in Task : ReportMemory(t)) \/ UNCHANGED vars)
    BY SweepIsHidden, Zenon DEF Promised!vars, Visible, Views
  <2>2. ASSUME NEW t \in Task, FetchRow(t) PROVE FALSE
    BY <2>2, FetchIsHidden, Zenon DEF Promised!vars, Visible, Views
  <2>3. ASSUME NEW t \in Task, Request(t) PROVE Promised!Next
    BY <2>1, <2>2, <2>3, StoreImplements, OpenImplements, CloseImplements, FailImplements,
       ForgetImplements, PurgeImplements, Zenon DEF Request, Promised!Next
  <2>. QED  BY <2>1, <2>3, TickImplements, FailImplements DEF Next, Promised!Next
<1>3. TypeOK /\ CursorInv /\ [Next]_vars => CursorInv'
  BY CursorStep
<1>. QED  BY <1>1, <1>2, <1>3, TypeCorrect, PTL DEF Spec, ImplementsScopedMemory, Promised!Spec

-----------------------------------------------------------------------------
(* Reported ids, where calls of memory_store do not overlap *)

OneStore == \A s, t \in Storing : s = t

\* No id above the largest one given out is in use anywhere.
IdsIssued ==
  /\ \A m \in memory \cup told : m.id <= sequence
  /\ \A t \in Task : call[t] # NoRow => call[t].id <= sequence

\* A store that has inserted and not reported is the connection's last insert, and
\* its row, if still there, is what it was asked to store.
StoresInProgress ==
  /\ \A t \in Task : call[t] # NoRow => t \in Storing
  /\ ~up => \A t \in Task : call[t] = NoRow
  /\ \A t \in Task : call[t] # NoRow =>
       /\ lastRowid = call[t].id
       /\ \A m \in memory : m.id = call[t].id => m = call[t]

IdInv == TypeOK /\ IdsIssued /\ StoresInProgress /\ ToldIdsNameTheirMemory

\* Rows may leave the table and ids stay issued.
LEMMA DeletionKeepsIds ==
  ASSUME IdInv, memory' \subseteq memory, UNCHANGED <<sequence, told>>,
         \/ UNCHANGED <<lastRowid, call, up>>
         \/ call' = [t \in Task |-> NoRow]
  PROVE  (IdsIssued /\ StoresInProgress /\ ToldIdsNameTheirMemory)'
<1>1. \A m \in memory \cup told : m.id <= sequence
  BY DEF IdInv, IdsIssued
<1>2. \A m \in memory' \cup told' : m.id <= sequence'
  BY <1>1
<1>3. ToldIdsNameTheirMemory'
  BY DEF IdInv, ToldIdsNameTheirMemory
<1>4. CASE call' = [t \in Task |-> NoRow]
  BY <1>2, <1>3, <1>4 DEF IdsIssued, StoresInProgress
<1>5. CASE UNCHANGED <<lastRowid, call, up>>
  BY <1>2, <1>3, <1>5 DEF IdInv, IdsIssued, StoresInProgress
<1>. QED  BY <1>4, <1>5

LEMMA IdStep ==
  ASSUME OneStore, IdInv, TypeOK', [Next]_vars
  PROVE  IdInv'
<1>. SUFFICES (IdsIssued /\ StoresInProgress /\ ToldIdsNameTheirMemory)'
  BY DEF IdInv
<1>1. ASSUME NEW t \in Task, t \in Storing, NEW c \in Content, NEW l \in StoreLabel, NEW ttl \in Ttl,
             StoreMemory(t, c, l, ttl)
      PROVE  (IdsIssued /\ StoresInProgress /\ ToldIdsNameTheirMemory)'
  <2>. DEFINE m == [id |-> sequence + 1, content |-> c, scope |-> NormalizeScope(l),
                    created |-> now, expires |-> ExpiresAt(ttl)]
  <2>1. m.id = sequence + 1
    OBVIOUS
  <2>. HIDE DEF m
  <2>2. /\ memory' = memory \cup {m}
        /\ call' = [call EXCEPT ![t] = m]
        /\ sequence' = sequence + 1 /\ lastRowid' = sequence + 1
        /\ up /\ UNCHANGED <<up, told>>
    BY <1>1 DEF StoreMemory, NextRowid, Ready, m
  <2>3. \A r \in memory \cup told : r.id \in Int /\ r.id <= sequence
    BY DEF IdInv, IdsIssued, TypeOK, Row
  <2>4. sequence \in Int
    BY DEF IdInv, TypeOK
  <2>5. \A u \in Task : call'[u] = IF u = t THEN m ELSE NoRow
    BY <1>1, <2>2 DEF OneStore, IdInv, TypeOK, StoresInProgress
  <2>6. IdsIssued'
    BY <2>1, <2>2, <2>3, <2>4, <2>5 DEF IdsIssued
  <2>7. StoresInProgress'
    BY <1>1, <2>1, <2>2, <2>3, <2>4, <2>5 DEF StoresInProgress
  <2>8. ToldIdsNameTheirMemory'
    BY <2>1, <2>2, <2>3, <2>4 DEF IdInv, ToldIdsNameTheirMemory
  <2>. QED  BY <2>6, <2>7, <2>8
<1>2. ASSUME NEW t \in Task, ReportMemory(t)
      PROVE  (IdsIssued /\ StoresInProgress /\ ToldIdsNameTheirMemory)'
  <2>. DEFINE r == call[t]
  <2>1. r \in Row /\ r # NoRow /\ lastRowid = r.id
    BY <1>2 DEF ReportMemory, IdInv, TypeOK, StoresInProgress
  <2>2. [r EXCEPT !.id = lastRowid] = r
    BY <2>1 DEF Row
  <2>3. /\ told' = told \cup {r}
        /\ call' = [call EXCEPT ![t] = NoRow]
        /\ UNCHANGED <<memory, sequence, lastRowid, up>>
    BY <1>2, <2>2 DEF ReportMemory
  <2>4. r.id <= sequence /\ \A m \in memory : m.id = r.id => m = r
    BY <2>1 DEF IdInv, IdsIssued, StoresInProgress
  <2>. HIDE DEF r
  <2>5. \A u \in Task : call'[u] = NoRow
    BY <1>2, <2>3 DEF OneStore, IdInv, TypeOK, StoresInProgress, ReportMemory
  <2>. QED  BY <2>3, <2>4, <2>5
            DEF IdInv, IdsIssued, StoresInProgress, ToldIdsNameTheirMemory
<1>3. ASSUME NEW t \in Task, NEW labels, NEW q, NEW n,
             OpenCursor(t, labels, q, n) \/ FetchRow(t) \/ CloseCursor(t) \/ ReadFails(t)
      PROVE  (IdsIssued /\ StoresInProgress /\ ToldIdsNameTheirMemory)'
  BY <1>3, DeletionKeepsIds DEF OpenCursor, FetchRow, CloseCursor, ReadFails
<1>4. ASSUME NEW t \in Task, NEW id \in 1..sequence, Forget(t, id)
      PROVE  (IdsIssued /\ StoresInProgress /\ ToldIdsNameTheirMemory)'
  BY <1>4, DeletionKeepsIds DEF Forget
<1>5. ASSUME NEW t \in Task, NEW l \in PurgeLabel, PurgeScope(t, l)
      PROVE  (IdsIssued /\ StoresInProgress /\ ToldIdsNameTheirMemory)'
  BY <1>5, DeletionKeepsIds DEF PurgeScope
<1>6. CASE PurgeExpired
  BY <1>6, DeletionKeepsIds DEF PurgeExpired
<1>7. CASE Open
  <2>1. call' = [t \in Task |-> NoRow]
    BY <1>7 DEF Open, IdInv, TypeOK, StoresInProgress
  <2>. QED  BY <1>7, <2>1, DeletionKeepsIds DEF Open
<1>8. CASE Crash
  BY <1>8, DeletionKeepsIds DEF Crash
<1>9. CASE Tick \/ UNCHANGED vars
  BY <1>9, DeletionKeepsIds DEF Tick, vars
<1>. QED  BY <1>1, <1>2, <1>3, <1>4, <1>5, <1>6, <1>7, <1>8, <1>9 DEF Next, Request

\* Where calls of memory_store do not overlap each other, whatever else they overlap, an
\* id that one reported names the memory it was reported for, or nothing, ever after.
THEOREM ToldIds ==
  ASSUME OneStore
  PROVE  Spec => []ToldIdsNameTheirMemory
<1>1. Init => IdInv
  BY TypeInit DEF Init, IdInv, IdsIssued, StoresInProgress, ToldIdsNameTheirMemory
<1>2. IdInv /\ [Next]_vars => IdInv'
  BY TypeStep, IdStep DEF IdInv
<1>3. IdInv => ToldIdsNameTheirMemory
  BY DEF IdInv
<1>. QED  BY <1>1, <1>2, <1>3, PTL DEF Spec

=============================================================================
